---------------------------- MODULE Spec2Model ----------------------------
(***************************************************************************)
(* A model of the outreach-automation scripts of growigh/automation:       *)
(*   - whatsapp-automation: contact loading, the contacted.csv ledger and   *)
(*     the per-profile worker threads;                                      *)
(*   - insta-auto: the usernames.csv / messaged.csv batch run;              *)
(*   - email-automation: the spreadsheet-driven send loop with its SMTP     *)
(*     fallback list.                                                       *)
(* Text is modelled as a sequence of one-character strings, so that         *)
(* stripping, lower-casing and CSV parsing are computed, not assumed.       *)
(***************************************************************************)
EXTENDS Integers, Sequences, FiniteSets, TLC

VARIABLES
    \* ---- which of the repository's scripts the operator has started
    script,
    \* ---- utils/normalize_number.py, exercised on its own
    nn_pc, nn_input, nn_result, nn_again,
    \* ---- whatsapp-automation
    wa_pc,              \* the process: "idle", "constructed", "running", "aborted"
    wa_runs,            \* processes started so far
    contacted_csv,      \* CONTACTED_CSV on disk
    csv_folder,         \* the CSV files of CSV_FOLDER, in os.listdir order
    contacted_numbers,  \* WhatsAppMessageSender.contacted_numbers
    contact_subset,     \* per profile: the slice handed to its thread
    w_pc,               \* per profile: where its thread stands
    w_idx,              \* per profile: position in contact_subset (from 1)
    w_attempt,          \* per profile: the retry loop's attempt (from 0)
    w_stats,            \* per profile: the stats dictionary
    w_sent,             \* per profile: successfully_sent_numbers
    wa_clicks,          \* history: normalized number -> successful Send clicks
    wa_recorded,        \* history: normalized numbers appended and added
    wa_write_failed,    \* history: an append to contacted.csv has failed
    wa_start_kind,      \* history: what the constructor found as contacted.csv
    w_exit,             \* history, per profile: how its thread left the try block:
                        \*   "through", "quit" (line 114) or "fatal_error" (line 131)
    w_summary,          \* history, per profile: the summary its thread printed
    \* ---- whatsapp-automation: the loop of run() that cuts the shards,
    \*      exercised on its own for any number of profiles
    sh_pc,              \* "input", "cutting", "cut"
    sh_contacts,        \* all_contacts
    sh_profiles,        \* len(CHROME_PROFILES)
    sh_i,               \* i of "for i, profile in enumerate(CHROME_PROFILES)"
    sh_start,           \* start_index
    sh_shards,          \* profile_contacts of the threads started so far
    \* ---- whatsapp-automation: the worker threads' use of contacted_lock,
    \*      statement by statement, each thread with one contact of its own
    contacted_lock,     \* the thread inside "with self.contacted_lock", or 0
    lk_contacted,       \* self.contacted_numbers
    lk_pc,              \* per profile: where its thread stands
    lk_attempt,         \* per profile: attempt of the retry loop (from 0)
    \* ---- the browser sessions of one run: a WhatsApp worker thread
    \*      (process_contacts) or the Instagram main()
    bs_pc,              \* where the worker or main() stands
    bs_created,         \* number of webdriver.Chrome sessions created so far
    bs_open,            \* the created sessions that have not been quit
    bs_driver,          \* the variable driver of managed_driver / main(), 0 = None
    bs_local,           \* the variable driver inside safe_get
    bs_call,            \* which call of safe_get is running: "home" or "chat"
    bs_attempt,         \* safe_get: attempt (from 0)
    bs_try,             \* process_single_contact: attempt (from 0)
    bs_left,            \* contacts or usernames still to process
    bs_result,          \* what safe_get has just returned: "True", "False"; else "none"
    bs_loaded,          \* the session in which that call loaded the url, or 0
    \* ---- email-automation: one delivery attempt, the loop over smtp_configs
    \*      of send_emails and of EmailSender.send_email
    sm_pc,              \* "config": at the head of the loop; "after_loop"; "returned"
    sm_caller,          \* "send_emails" or "send_email"
    smtp_port,          \* the configured port, which decides SSL or TLS first
    sm_cfg,             \* position in smtp_configs (from 1)
    server,             \* the variable server: 0 = None, else the position of
                        \*   the configuration whose SMTP object it holds
    sm_open,            \* positions whose connection was opened and not closed
    sm_error,           \* what the latest failed configuration raised
    sm_success,         \* the variable success
    sm_reported,        \* the error printed for the target when the attempt ends
    \* ---- whatsapp-automation: the end-of-shard removals of the threads,
    \*      read and write of a source file as the separate steps they are
    rm_pc,              \* per profile: "finally", "read", "write", "done"
    rm_folder,          \* the CSV files of CSV_FOLDER
    rm_sent,            \* per profile: successfully_sent_numbers
    rm_file,            \* per profile: position in csv_files (from 1)
    rm_filtered,        \* per profile: df_filtered, about to be written
    \* ---- insta-auto
    ig_pc,              \* main(): "idle", "setup", "loop"
    ig_runs,            \* processes started so far
    usernames_csv,      \* USERNAMES_FILE on disk
    messaged_csv,       \* MESSAGED_FILE on disk
    usernames,          \* main()'s list of usernames to process
    ig_idx,             \* position of the for loop in usernames (from 1)
    ig_attempts,        \* history: username -> send_message calls in this run
    ig_outcome,         \* history: how the latest send_message of this run ended
    ig_load,            \* history: how the latest load_usernames ended
    ig_start_kind,      \* history: what the latest load found as messaged.csv
    ig_recorded,        \* history: usernames written to messaged.csv
    ig_known,           \* history: ig_recorded as it was when this run started
    ig_from_missing,    \* history: messaged.csv was missing at the very start
    \* ---- email-automation (email_automation.py)
    em_pc,              \* send_emails: "idle", "rows", "smtp", "sent", "summary"
    em_runs,            \* runs of send_emails so far
    worksheet,          \* the worksheet on the server: header row and data rows
    records,            \* worksheet.get_all_records() of this run
    em_i,               \* i of "for i, record in enumerate(records, 1)"
    em_cfg,             \* position in smtp_configs (from 1)
    emails_sent, total_rows, approved_rows, not_approved_rows,
    em_delivered,       \* history: sendmail calls that went through for row i
    em_attempted,       \* history: rows that got a delivery attempt in this run
    em_marked,          \* history: rows whose sent cell the driver set to "True"
    em_marked_before,   \* history: em_marked as it was when this run started
    em_printed,         \* history: the summary this run printed, if any
    sent_folder_saves,  \* calls of save_to_sent_folder in this run
    \* ---- email-automation, draft variant (src/email_automation.py)
    dr_pc,              \* "idle", "sheet", "worksheet", "rows", "filter", "final"
    dr_runs,            \* runs of save_emails_to_drafts so far
    dr_mode,            \* "env": the URL list of .env; "manual": one typed sheet
    dr_sheets,          \* per URL: the spreadsheet's worksheets on the server
    dr_s, dr_w, dr_r,   \* positions: URL, worksheet, record (from 1)
    dr_records,         \* get_worksheet_records(worksheet) of the current worksheet
    dr_ws,              \* _process_worksheet_for_drafts: its four counters
    dr_sheet,           \* _process_single_sheet_for_drafts: its four counters
    dr_totals,          \* _process_multiple_sheets_for_drafts: its four totals
    dr_printed,         \* history: the summaries printed, latest last
    dr_read,            \* history: the records the loops went over, and the
                        \*   approved ones among them
    dr_attempted,       \* history: <<URL, worksheet, record>> given to
                        \*   save_email_to_drafts
    dr_mark_failed      \* history: <<URL, worksheet, record>> whose mark_as_sent
                        \*   returned False

nnVars == <<nn_pc, nn_input, nn_result, nn_again>>

waVars == <<wa_pc, wa_runs, contacted_csv, csv_folder, contacted_numbers,
            contact_subset, w_pc, w_idx, w_attempt, w_stats, w_sent,
            wa_clicks, wa_recorded, wa_write_failed, wa_start_kind,
            w_exit, w_summary>>

igVars == <<ig_pc, ig_runs, usernames_csv, messaged_csv, usernames, ig_idx,
            ig_attempts, ig_outcome, ig_load, ig_start_kind, ig_recorded, ig_known,
            ig_from_missing>>

emVars == <<em_pc, em_runs, worksheet, records, em_i, em_cfg, emails_sent,
            total_rows, approved_rows, not_approved_rows, em_delivered,
            em_attempted, em_marked, em_marked_before, em_printed,
            sent_folder_saves>>

shVars == <<sh_pc, sh_contacts, sh_profiles, sh_i, sh_start, sh_shards>>

rmVars == <<rm_pc, rm_folder, rm_sent, rm_file, rm_filtered>>

smVars == <<sm_pc, sm_caller, smtp_port, sm_cfg, server, sm_open, sm_error,
           sm_success, sm_reported>>

bsVars == <<bs_pc, bs_created, bs_open, bs_driver, bs_local, bs_call,
           bs_attempt, bs_try, bs_left, bs_result, bs_loaded>>

lkVars == <<contacted_lock, lk_contacted, lk_pc, lk_attempt>>

drVars == <<dr_pc, dr_runs, dr_mode, dr_sheets, dr_s, dr_w, dr_r, dr_records,
            dr_ws, dr_sheet, dr_totals, dr_printed, dr_read, dr_attempted,
            dr_mark_failed>>

vars == <<script, nnVars, waVars, igVars, emVars, drVars, shVars, lkVars,
          bsVars, smVars, rmVars>>

\* what the actions of one script leave alone: the other scripts' state
nnOthers == <<script, waVars, igVars, emVars, drVars, shVars, lkVars, bsVars,
             smVars, rmVars>>
waOthers == <<script, nnVars, igVars, emVars, drVars, shVars, lkVars, bsVars,
             smVars, rmVars>>
igOthers == <<script, nnVars, waVars, emVars, drVars, shVars, lkVars, bsVars,
             smVars, rmVars>>
emOthers == <<script, nnVars, waVars, igVars, drVars, shVars, lkVars, bsVars,
             smVars, rmVars>>
shOthers == <<script, nnVars, waVars, igVars, emVars, drVars, lkVars, bsVars,
             smVars, rmVars>>
lkOthers == <<script, nnVars, waVars, igVars, emVars, drVars, shVars, bsVars,
             smVars, rmVars>>
bsOthers == <<script, nnVars, waVars, igVars, emVars, drVars, shVars, lkVars,
             smVars, rmVars>>
smOthers == <<script, nnVars, waVars, igVars, emVars, drVars, shVars, lkVars,
             bsVars, rmVars>>
rmOthers == <<script, nnVars, waVars, igVars, emVars, drVars, shVars, lkVars,
             bsVars, smVars>>
drOthers == <<script, nnVars, waVars, igVars, emVars, shVars, lkVars, bsVars,
             smVars, rmVars>>

(***************************************************************************)
(* Bounds of the model                                                     *)
(***************************************************************************)
\* processes started one after the other
MaxRuns == 2
\* data rows in the source CSV files of one folder
MaxRows == 2
\* the histories of clicks and attempts count up to here ("this many or more")
HistoryCap == 2

(***************************************************************************)
(* Text                                                                    *)
(***************************************************************************)
Tab == "\t"

\* str.isdigit() on one character of the modelled alphabet
IsDigitChar(c) == c \in {"0", "1", "2", "3", "4", "5", "6", "7", "8", "9"}

\* the characters str.strip() removes at both ends
IsSpaceChar(c) == c \in {" ", Tab}

RECURSIVE LStrip(_)
LStrip(s) ==
    IF s = <<>> THEN <<>>
    ELSE IF IsSpaceChar(Head(s)) THEN LStrip(Tail(s)) ELSE s

RECURSIVE RStrip(_)
RStrip(s) ==
    IF s = <<>> THEN <<>>
    ELSE IF IsSpaceChar(s[Len(s)]) THEN RStrip(SubSeq(s, 1, Len(s) - 1)) ELSE s

\* str.strip()
Strip(s) == RStrip(LStrip(s))

\* str.replace(c, '') for one character c
RemoveCharTest(c, x) == c # x
Replace(s, c) == SelectSeq(s, LAMBDA x : RemoveCharTest(c, x))

\* str.isdigit(): non-empty and every character a digit
IsDigitStr(s) == s # <<>> /\ \A i \in 1..Len(s) : IsDigitChar(s[i])

(***************************************************************************)
(* utils/normalize_number.py                                               *)
(***************************************************************************)
MinNumberLen == 8
MaxNumberLen == 15

Ok(v) == [ok |-> TRUE, val |-> v]
Raise(e) == [ok |-> FALSE, err |-> e]

\* line 5: strip, then drop ' ', '-', '+', '(' and ')'
Separators(s) ==
    Replace(Replace(Replace(Replace(Replace(Strip(s), " "), "-"), "+"), "("), ")")

\* The length test made on the text as given instead of on the digits kept.
normalize_number_LengthOfInput(number) ==
    IF number = <<>> THEN Raise("ValueError:empty")
    ELSE LET normalized == Separators(number) IN
         IF ~IsDigitStr(normalized) THEN Raise("ValueError:format")
         ELSE IF ~(MinNumberLen <= Len(number) /\ Len(number) <= MaxNumberLen)
              THEN Raise("ValueError:length")
              ELSE Ok(normalized)

\* The same with parentheses left in the text.
normalize_number_KeepsParentheses(number) ==
    IF number = <<>> THEN Raise("ValueError:empty")
    ELSE LET normalized == Replace(Replace(Replace(Strip(number), " "), "-"), "+") IN
         IF ~IsDigitStr(normalized) THEN Raise("ValueError:format")
         ELSE IF ~(MinNumberLen <= Len(normalized) /\ Len(normalized) <= MaxNumberLen)
              THEN Raise("ValueError:length")
              ELSE Ok(normalized)

normalize_number(number) ==
    IF number = <<>> THEN Raise("ValueError:empty")
    ELSE LET normalized == Separators(number) IN
         IF ~IsDigitStr(normalized) THEN Raise("ValueError:format")
         ELSE IF ~(MinNumberLen <= Len(normalized) /\ Len(normalized) <= MaxNumberLen)
              THEN Raise("ValueError:length")
              ELSE Ok(normalized)

(***************************************************************************)
(* Inputs for normalize_number: a run of digits with optional decoration   *)
(* in front, in the middle and behind.                                     *)
(***************************************************************************)
MaxDigits == 17

DigitOf(i) ==
    CASE i % 10 = 0 -> "0" [] i % 10 = 1 -> "1" [] i % 10 = 2 -> "2"
      [] i % 10 = 3 -> "3" [] i % 10 = 4 -> "4" [] i % 10 = 5 -> "5"
      [] i % 10 = 6 -> "6" [] i % 10 = 7 -> "7" [] i % 10 = 8 -> "8"
      [] OTHER -> "9"

DigitRun(from, n) == [i \in 1..n |-> DigitOf(from + i - 1)]

Prefixes == { <<>>, <<"+">>, <<" ">>, <<Tab>>, <<"(">>, <<"0">>, <<"a">>, <<"-">>,
              <<"+", "9", "1", " ">> }
Infixes == { <<>>, <<"-">>, <<" ">>, <<Tab>>, <<")", " ">>, <<".">> }
Suffixes == { <<>>, <<" ">>, <<")">>, <<"a">>, <<Tab>> }

NormInputs ==
    { p \o DigitRun(1, n \div 2) \o m \o DigitRun(1 + n \div 2, n - n \div 2) \o s :
        p \in Prefixes, m \in Infixes, s \in Suffixes, n \in 0..MaxDigits }

NoResult == [ok |-> FALSE, err |-> "none"]

NNInit ==
    /\ nn_pc = "input"
    /\ nn_input \in NormInputs
    /\ nn_result = NoResult
    /\ nn_again = NoResult

\* one call normalize_number(i)
NNCall ==
    /\ nn_pc = "input"
    /\ nn_result' = normalize_number(nn_input)
    /\ nn_pc' = "called"
    /\ UNCHANGED <<nn_input, nn_again>>
    /\ UNCHANGED nnOthers

\* a second call on the value the first one returned
NNCallAgain ==
    /\ nn_pc = "called"
    /\ nn_result.ok
    /\ nn_again' = normalize_number(nn_result.val)
    /\ nn_pc' = "again"
    /\ UNCHANGED <<nn_input, nn_result>>
    /\ UNCHANGED nnOthers

NNNext == NNCall \/ NNCallAgain

(***************************************************************************)
(* CSV files as pandas reads and writes them.  A path is missing,           *)
(* unreadable (it exists and cannot be read or decoded) or a file with its   *)
(* sequence of lines; a one-column file's line is that column's cell.  The  *)
(* first line is the header.  Cells of the modelled alphabet are never      *)
(* empty, never quoted and never parse as floats.                           *)
(***************************************************************************)
Missing == [state |-> "missing", lines |-> <<>>]
Unreadable == [state |-> "unreadable", lines |-> <<>>]
File(lines) == [state |-> "file", lines |-> lines]

\* COLUMN_NAME, as a header cell
COLUMN_NAME == <<"phone number">>

\* pandas' str_to_int64: optional blanks, an optional sign, digits, blanks
SignOf(t) == IF t # <<>> /\ Head(t) \in {"+", "-"} THEN <<Head(t)>> ELSE <<>>
Unsigned(t) == IF SignOf(t) = <<>> THEN t ELSE Tail(t)
IntParsable(cell) == IsDigitStr(Unsigned(Strip(cell)))

RECURSIVE DropLeadingZeros(_)
DropLeadingZeros(d) ==
    IF Len(d) > 1 /\ Head(d) = "0" THEN DropLeadingZeros(Tail(d)) ELSE d

\* str(int(cell)): no blanks, no '+', no leading zeros
IntText(cell) ==
    LET t == Strip(cell)
        d == DropLeadingZeros(Unsigned(t))
    IN  IF SignOf(t) = <<"-">> /\ d # <<"0">> THEN <<"-">> \o d ELSE d

\* The column's values as text: an all-integer column is int64, so str()
\* of a value is the integer's decimal text; any other column keeps its
\* cells as the strings they are.
ColumnValues(cells) ==
    IF cells # <<>> /\ \A i \in 1..Len(cells) : IntParsable(cells[i])
    THEN [i \in 1..Len(cells) |-> IntText(cells[i])]
    ELSE cells

\* A value of a frame's cell: an integer of an int64 column or a string of an
\* object column; Str is str(value).
IntValue(text) == [type |-> "int", text |-> text]
StrValue(text) == [type |-> "str", text |-> text]
Str(value) == value.text

\* the cells of a column as df.to_dict(orient='records') and iterrows() hand
\* them out
TypedValues(cells) ==
    IF cells # <<>> /\ \A i \in 1..Len(cells) : IntParsable(cells[i])
    THEN [i \in 1..Len(cells) |-> IntValue(IntText(cells[i]))]
    ELSE [i \in 1..Len(cells) |-> StrValue(cells[i])]

\* pd.read_csv(path) of a one-column file
read_csv(file) ==
    IF file = Missing THEN Raise("FileNotFoundError")
    ELSE IF file = Unreadable THEN Raise("OSError")
    ELSE IF file.lines = <<>> THEN Raise("EmptyDataError")
    ELSE Ok([column |-> Head(file.lines),
             values |-> ColumnValues(Tail(file.lines)),
             typed |-> TypedValues(Tail(file.lines))])

\* DataFrame.to_csv(path, index=False) of a one-column frame
to_csv(column, values) == File(<<column>> \o values)

(***************************************************************************)
(* utils/contact_manager.py                                                *)
(***************************************************************************)
\* load_contacted_numbers(): the result, and the file as it leaves it
load_contacted_numbers_file ==
    LET df == read_csv(contacted_csv) IN
    IF df.ok THEN
        IF df.val.column # COLUMN_NAME
        THEN [res |-> Raise("Exception:column"), file |-> contacted_csv]
        ELSE [res |-> Ok({df.val.values[i] : i \in 1..Len(df.val.values)}),
              file |-> contacted_csv]
    ELSE IF df.err \in {"FileNotFoundError", "EmptyDataError"}
         THEN [res |-> Ok({}), file |-> to_csv(COLUMN_NAME, <<>>)]
         ELSE [res |-> Raise("Exception:read"), file |-> contacted_csv]

\* safely_append_to_contacted(number), when the write goes through: one
\* line with the number as to_csv prints it
safely_append_to_contacted(file, number) ==
    IF file.state # "file" THEN File(<<Str(number)>>)
    ELSE File(Append(file.lines, Str(number)))

\* CSV_FOLDER: absent, or its CSV files in os.listdir order
NoFolder == [exists |-> FALSE, files |-> <<>>]
Folder(files) == [exists |-> TRUE, files |-> files]

\* load_all_contacts: the rows of one file, in order.  A row that fails
\* normalize_number raises inside the file's try block, which ends the file
\* with the rows kept so far.
RECURSIVE LoadRows(_, _)
LoadRows(values, acc) ==
    IF values = <<>> THEN acc
    ELSE LET contact == Head(values)
             number == Str(contact)
             normalized == normalize_number(number)
         IN  IF ~normalized.ok THEN acc
             ELSE IF normalized.val \notin acc.unique_numbers
                  THEN LoadRows(Tail(values),
                                [unique_numbers |-> acc.unique_numbers \cup {normalized.val},
                                 all_contacts |-> Append(acc.all_contacts, contact)])
                  ELSE LoadRows(Tail(values), acc)

LoadFile(file, acc) ==
    LET df == read_csv(file) IN
    IF df.ok /\ df.val.column = COLUMN_NAME THEN LoadRows(df.val.typed, acc) ELSE acc

RECURSIVE LoadFiles(_, _)
LoadFiles(files, acc) ==
    IF files = <<>> THEN acc ELSE LoadFiles(Tail(files), LoadFile(Head(files), acc))

\* load_all_contacts(folder_path)
load_all_contacts(folder) ==
    IF ~folder.exists THEN Raise("FileNotFoundError")
    ELSE Ok(LoadFiles(folder.files,
                      [unique_numbers |-> {}, all_contacts |-> <<>>]).all_contacts)

\* line 141, for numbers that all normalize (the sent numbers do)
Normalized(numbers) ==
    {normalize_number(Str(numbers[i])).val :
        i \in {j \in 1..Len(numbers) : normalize_number(Str(numbers[j])).ok}}

\* remove_contacted_from_source_files, one file: rewritten without the rows
\* whose normalized number was sent; left alone when nothing is removed, when
\* it cannot be read, has no phone column, or a row fails normalize_number.
RemoveFromFile(file, normalized_contacted) ==
    LET df == read_csv(file) IN
    IF ~(df.ok /\ df.val.column = COLUMN_NAME) THEN file
    ELSE LET values == df.val.values
             kept == SelectSeq(values,
                        LAMBDA v : normalize_number(v).val \notin normalized_contacted)
         IN  IF \E i \in 1..Len(values) : ~normalize_number(values[i]).ok THEN file
             ELSE IF Len(values) - Len(kept) > 0 THEN to_csv(COLUMN_NAME, kept)
                  ELSE file

remove_contacted_from_source_files(folder, sent_numbers) ==
    IF sent_numbers = <<>> \/ Normalized(sent_numbers) = {} \/ ~folder.exists
    THEN folder
    ELSE Folder([i \in 1..Len(folder.files) |->
                    RemoveFromFile(folder.files[i], Normalized(sent_numbers))])

(***************************************************************************)
(* core/message_sender.py: WhatsAppMessageSender                           *)
(***************************************************************************)
\* len(CHROME_PROFILES)
NumProfiles == 3
Profiles == 1..NumProfiles

\* max_retries
max_retries == 3

NoStats == [successful_sends |-> 0, failed_sends |-> 0, skipped |-> 0]

\* what a process holds in memory before anything ran
\* nothing printed yet
NoSummary == [printed |-> FALSE]

WAFreshMemory ==
    /\ contacted_numbers = {}
    /\ contact_subset = [p \in Profiles |-> <<>>]
    /\ w_pc = [p \in Profiles |-> "none"]
    /\ w_idx = [p \in Profiles |-> 1]
    /\ w_attempt = [p \in Profiles |-> 0]
    /\ w_stats = [p \in Profiles |-> NoStats]
    /\ w_sent = [p \in Profiles |-> <<>>]
    /\ w_exit = [p \in Profiles |-> "none"]
    /\ w_summary = [p \in Profiles |-> NoSummary]

WAFreshMemoryNext ==
    /\ contacted_numbers' = {}
    /\ contact_subset' = [p \in Profiles |-> <<>>]
    /\ w_pc' = [p \in Profiles |-> "none"]
    /\ w_idx' = [p \in Profiles |-> 1]
    /\ w_attempt' = [p \in Profiles |-> 0]
    /\ w_stats' = [p \in Profiles |-> NoStats]
    /\ w_sent' = [p \in Profiles |-> <<>>]
    /\ w_exit' = [p \in Profiles |-> "none"]
    /\ w_summary' = [p \in Profiles |-> NoSummary]

\* what load_contacted_numbers is given, for the record
LedgerKind(file) ==
    LET df == read_csv(file) IN
    IF file = Missing THEN "missing"
    ELSE IF file = Unreadable THEN "unreadable"
    ELSE IF file.lines = <<>> THEN "empty"
    ELSE IF df.val.column # COLUMN_NAME THEN "no_column"
    ELSE IF df.val.values = <<>> THEN "header_only"
    ELSE IF \E i \in 1..Len(df.val.values) : ~normalize_number(df.val.values[i]).ok
         THEN "bad_entry"
         ELSE "entries"

\* WhatsAppMessageSender.load_contacted_numbers: every loaded number goes
\* through normalize_number, whose ValueError nothing catches.
load_contacted_numbers ==
    LET loaded == load_contacted_numbers_file IN
    IF ~loaded.res.ok THEN loaded
    ELSE IF \E num \in loaded.res.val : ~normalize_number(num).ok
         THEN [res |-> Raise("ValueError"), file |-> loaded.file]
         ELSE [res |-> Ok({normalize_number(num).val : num \in loaded.res.val}),
               file |-> loaded.file]

\* The same with every failure swallowed and the ledger taken as empty.
Construct_FailOpen(loaded) ==
    /\ wa_pc' = "constructed"
    /\ contacted_numbers' = IF loaded.res.ok THEN loaded.res.val ELSE {}

\* __init__ after load_contacted_numbers returned or raised: main() has no
\* handler around WhatsAppMessageSender(), so a raise ends the process.
Construct(loaded) ==
    /\ wa_pc' = IF loaded.res.ok THEN "constructed" ELSE "aborted"
    /\ contacted_numbers' = IF loaded.res.ok THEN loaded.res.val ELSE {}

\* main(), choice 1: sender = WhatsAppMessageSender()
WAConstruct ==
    /\ wa_pc \in {"idle", "aborted"}
    /\ wa_runs < MaxRuns
    /\ wa_runs' = wa_runs + 1
    /\ wa_start_kind' = LedgerKind(contacted_csv)
    /\ contacted_csv' = load_contacted_numbers.file
    /\ Construct(load_contacted_numbers)
    /\ contact_subset' = [p \in Profiles |-> <<>>]
    /\ w_pc' = [p \in Profiles |-> "none"]
    /\ w_idx' = [p \in Profiles |-> 1]
    /\ w_attempt' = [p \in Profiles |-> 0]
    /\ w_stats' = [p \in Profiles |-> NoStats]
    /\ w_sent' = [p \in Profiles |-> <<>>]
    /\ w_exit' = [p \in Profiles |-> "none"]
    /\ w_summary' = [p \in Profiles |-> NoSummary]
    /\ UNCHANGED <<csv_folder, wa_clicks, wa_recorded, wa_write_failed>>
    /\ UNCHANGED waOthers

\* run(): the slice of profile i (from 1), as the loop of lines 188-192 cuts it
ShardCount(total, i) ==
    total \div NumProfiles + (IF i - 1 < total % NumProfiles THEN 1 ELSE 0)

RECURSIVE ShardStart(_, _)
ShardStart(total, i) ==
    IF i = 1 THEN 0 ELSE ShardStart(total, i - 1) + ShardCount(total, i - 1)

Shard(all_contacts, i) ==
    SubSeq(all_contacts,
           ShardStart(Len(all_contacts), i) + 1,
           ShardStart(Len(all_contacts), i) + ShardCount(Len(all_contacts), i))

\* lines 181-189: the size of the slice of profile i (from 0) among
\* profile_count profiles; the mutant hands the remainder to the last ones
SliceCount_RemainderToLast(total, profile_count, i) ==
    (total \div profile_count)
        + (IF i >= profile_count - (total % profile_count) THEN 1 ELSE 0)

SliceCount(total, profile_count, i) ==
    (total \div profile_count) + (IF i < (total % profile_count) THEN 1 ELSE 0)

\* lines 188-192, one pass of the loop: count, end_index, the slice
\* all_contacts[start_index:end_index], start_index = end_index
ShCut ==
    /\ sh_pc = "cutting"
    /\ sh_i < sh_profiles
    /\ LET count == SliceCount(Len(sh_contacts), sh_profiles, sh_i)
           end_index == sh_start + count
       IN  /\ sh_shards' = Append(sh_shards, SubSeq(sh_contacts, sh_start + 1, end_index))
           /\ sh_start' = end_index
    /\ sh_i' = sh_i + 1
    /\ UNCHANGED <<sh_pc, sh_contacts, sh_profiles>>
    /\ UNCHANGED shOthers

\* the loop is through
ShDone ==
    /\ sh_pc = "cutting"
    /\ sh_i = sh_profiles
    /\ sh_pc' = "cut"
    /\ UNCHANGED <<sh_contacts, sh_profiles, sh_i, sh_start, sh_shards>>
    /\ UNCHANGED shOthers

\* lines 166-185: no contacts or no profiles and run() returns
ShBegin ==
    /\ sh_pc = "input"
    /\ sh_pc' = IF Len(sh_contacts) = 0 \/ sh_profiles = 0 THEN "cut" ELSE "cutting"
    /\ sh_i' = 0
    /\ sh_start' = 0
    /\ sh_shards' = <<>>
    /\ UNCHANGED <<sh_contacts, sh_profiles>>
    /\ UNCHANGED shOthers

SHNext == ShBegin \/ ShCut \/ ShDone

\* the lists and the numbers of profiles the loop is exercised on: the
\* contacts are told apart by their place in the list
MaxContacts == 7
MaxProfileCount == 4
SHInit ==
    /\ sh_pc = "input"
    /\ sh_contacts \in {[k \in 1..len |-> k] : len \in 0..MaxContacts}
    /\ sh_profiles \in 0..MaxProfileCount
    /\ sh_i = 0
    /\ sh_start = 0
    /\ sh_shards = <<>>

SHIdle ==
    /\ sh_pc = "input"
    /\ sh_contacts = <<>>
    /\ sh_profiles = 0
    /\ sh_i = 0
    /\ sh_start = 0
    /\ sh_shards = <<>>

\* ---- contacted_lock, statement by statement.  The thread of profile p has
\* the one contact whose normalized number is p: load_all_contacts keeps one
\* contact per normalized number, so no two shards hold the same one.

\* line 54: with self.contacted_lock, entered when the lock is free
LkEnterCheck(p) ==
    /\ lk_pc[p] = "start"
    /\ contacted_lock = 0
    /\ contacted_lock' = p
    /\ lk_pc' = [lk_pc EXCEPT ![p] = "in_check"]
    /\ UNCHANGED <<lk_contacted, lk_attempt>>
    /\ UNCHANGED lkOthers

\* lines 55-57: the membership test; leaving the block releases the lock
LkCheck(p) ==
    /\ lk_pc[p] = "in_check"
    /\ lk_pc' = [lk_pc EXCEPT ![p] = IF p \in lk_contacted THEN "returned_false"
                                     ELSE "attempt"]
    /\ contacted_lock' = 0
    /\ UNCHANGED <<lk_contacted, lk_attempt>>
    /\ UNCHANGED lkOthers

\* lines 80-85: the except branch of the retry loop
LkRetryOrGiveUp(p) ==
    IF lk_attempt[p] = max_retries - 1
    THEN /\ lk_pc' = [lk_pc EXCEPT ![p] = "returned_false"]
         /\ UNCHANGED lk_attempt
    ELSE /\ lk_pc' = [lk_pc EXCEPT ![p] = "attempt"]
         /\ lk_attempt' = [lk_attempt EXCEPT ![p] = @ + 1]

\* lines 64-70: open the chat, wait for the button, click
LkAttempt(p) ==
    /\ lk_pc[p] = "attempt"
    /\ \E clicked \in BOOLEAN :
          IF clicked
          THEN /\ lk_pc' = [lk_pc EXCEPT ![p] = "clicked"]
               /\ UNCHANGED lk_attempt
          ELSE LkRetryOrGiveUp(p)
    /\ UNCHANGED <<contacted_lock, lk_contacted>>
    /\ UNCHANGED lkOthers

\* line 72: with self.contacted_lock, entered when the lock is free
LkEnterAppend(p) ==
    /\ lk_pc[p] = "clicked"
    /\ contacted_lock = 0
    /\ contacted_lock' = p
    /\ lk_pc' = [lk_pc EXCEPT ![p] = "in_append"]
    /\ UNCHANGED <<lk_contacted, lk_attempt>>
    /\ UNCHANGED lkOthers

\* lines 73-74: the file append, which may raise, then the add to the set;
\* leaving the block either way releases the lock
LkAppend(p) ==
    /\ lk_pc[p] = "in_append"
    /\ \E written \in BOOLEAN :
          IF written
          THEN /\ lk_contacted' = lk_contacted \cup {p}
               /\ lk_pc' = [lk_pc EXCEPT ![p] = "returned_true"]
               /\ UNCHANGED lk_attempt
          ELSE /\ LkRetryOrGiveUp(p)
               /\ UNCHANGED lk_contacted
    /\ contacted_lock' = 0
    /\ UNCHANGED lkOthers

\* lines 125-129: process_single_contact returned False, and the caller
\* tests contact[COLUMN_NAME] in self.contacted_numbers outside any with block
LkStats(p) ==
    /\ lk_pc[p] = "returned_false"
    /\ lk_pc' = [lk_pc EXCEPT ![p] = "done"]
    /\ UNCHANGED <<contacted_lock, lk_contacted, lk_attempt>>
    /\ UNCHANGED lkOthers

\* lines 121-124: process_single_contact returned True
LkSent(p) ==
    /\ lk_pc[p] = "returned_true"
    /\ lk_pc' = [lk_pc EXCEPT ![p] = "done"]
    /\ UNCHANGED <<contacted_lock, lk_contacted, lk_attempt>>
    /\ UNCHANGED lkOthers

LKNext ==
    \E p \in Profiles :
        \/ LkEnterCheck(p)
        \/ LkCheck(p)
        \/ LkAttempt(p)
        \/ LkEnterAppend(p)
        \/ LkAppend(p)
        \/ LkStats(p)
        \/ LkSent(p)

\* the threads at the head of process_single_contact, whatever the ledger held
LKInit ==
    /\ contacted_lock = 0
    /\ lk_contacted \in SUBSET Profiles
    /\ lk_pc = [p \in Profiles |-> "start"]
    /\ lk_attempt = [p \in Profiles |-> 0]

LKIdle ==
    /\ contacted_lock = 0
    /\ lk_contacted = {}
    /\ lk_pc = [p \in Profiles |-> "none"]
    /\ lk_attempt = [p \in Profiles |-> 0]

\* ---- browser sessions (config/driver_setup.py, insta-auto/main.py)

\* safe_get(driver, url, profile, retries=3, delay=2)
retries == 3

\* setup_driver(profile): "no_driver" raises before webdriver.Chrome returns
\* (lines 120-124), "script_failed" raises in execute_script (line 127) after
\* the session was created, "ready" returns the session
SetupOutcomes == {"no_driver", "script_failed", "ready"}

setup_driver(outcome, created, open) ==
    IF outcome = "no_driver"
    THEN [raised |-> TRUE, driver |-> 0, created |-> created, open |-> open]
    ELSE [raised |-> outcome = "script_failed",
          driver |-> IF outcome = "ready" THEN created + 1 ELSE 0,
          created |-> created + 1,
          open |-> open \cup {created + 1}]

\* cleanup_driver(driver) and driver.quit()
cleanup_driver(driver, open) == open \ {driver}

\* any step but a return of safe_get
NoSafeGetResult ==
    /\ bs_result' = "none"
    /\ bs_loaded' = 0

\* process_contacts line 108: with managed_driver(profile) as driver, then the
\* first statement of the block, safe_get of the home page.  When setup_driver
\* raises, managed_driver's finally finds driver None and the exception goes
\* to line 131 and the worker returns
ManagedDriverEnter ==
    /\ script = "whatsapp"
    /\ bs_pc = "start"
    /\ \E outcome \in SetupOutcomes :
          LET r == setup_driver(outcome, bs_created, bs_open) IN
          /\ bs_created' = r.created
          /\ bs_open' = r.open
          /\ bs_driver' = r.driver
          /\ bs_local' = r.driver
          /\ bs_pc' = IF r.raised THEN "returned" ELSE "get"
    /\ bs_call' = "home"
    /\ UNCHANGED <<bs_attempt, bs_try, bs_left>>
    /\ NoSafeGetResult
    /\ UNCHANGED bsOthers

\* what follows a safe_get that returned: the home page's result is ignored
\* (line 110), the chat's False raises "Failed to open chat" (lines 65-66)
AfterSafeGet(result, loaded) ==
    /\ bs_result' = IF result THEN "True" ELSE "False"
    /\ bs_loaded' = loaded
    /\ IF bs_call = "home"
       THEN /\ bs_pc' = "qr"
            /\ UNCHANGED <<bs_try, bs_left>>
       ELSE IF result
       THEN /\ bs_pc' = "click"
            /\ UNCHANGED <<bs_try, bs_left>>
       ELSE IF bs_try = max_retries - 1
       THEN /\ bs_pc' = "loop"
            /\ bs_left' = bs_left - 1
            /\ bs_try' = 0
       ELSE /\ bs_pc' = "get"
            /\ bs_try' = bs_try + 1
            /\ UNCHANGED bs_left

\* safe_get lines 171-172: sleep, next attempt, False after the last
NextAttempt ==
    IF bs_attempt = retries - 1
    THEN /\ bs_attempt' = 0
         /\ AfterSafeGet(FALSE, 0)
    ELSE /\ bs_attempt' = bs_attempt + 1
         /\ NoSafeGetResult
         /\ UNCHANGED <<bs_pc, bs_try, bs_left>>

\* safe_get, one attempt (lines 153-171).  A session that was quit loads
\* nothing.  On "invalid session id" the old session is cleaned up and
\* managed_driver(profile) gives a new one, which is quit on leaving the with
\* block, by return or by exception.  The chat call passes a profile without
\* "user_data_dir" (line 65), so setup_driver raises KeyError at line 91.
safe_get ==
    /\ bs_pc = "get"
    /\ \E outcome \in {"loaded", "error", "invalid session id"} :
          \/ /\ outcome = "loaded"
             /\ bs_local \in bs_open
             /\ bs_attempt' = 0
             /\ AfterSafeGet(TRUE, bs_local)
             /\ UNCHANGED <<bs_created, bs_open, bs_local>>
          \/ /\ outcome = "error"
             /\ NextAttempt
             /\ UNCHANGED <<bs_created, bs_open, bs_local>>
          \/ /\ outcome = "invalid session id"
             /\ bs_call = "chat"
             /\ bs_open' = cleanup_driver(bs_local, bs_open)
             /\ NextAttempt
             /\ UNCHANGED <<bs_created, bs_local>>
          \/ /\ outcome = "invalid session id"
             /\ bs_call = "home"
             /\ \E setup \in SetupOutcomes, loaded \in BOOLEAN :
                   LET r == setup_driver(setup, bs_created,
                                         cleanup_driver(bs_local, bs_open)) IN
                   /\ bs_created' = r.created
                   /\ IF r.raised
                      THEN /\ bs_open' = r.open
                           /\ UNCHANGED bs_local
                           /\ NextAttempt
                      ELSE /\ bs_open' = cleanup_driver(r.driver, r.open)
                           /\ bs_local' = r.driver
                           /\ IF loaded
                              THEN /\ bs_attempt' = 0
                                   /\ AfterSafeGet(TRUE, r.driver)
                              ELSE NextAttempt
    /\ UNCHANGED <<bs_driver, bs_call>>
    /\ UNCHANGED bsOthers

\* lines 113-114: no scan in time, return
HandleQrCodeScan ==
    /\ bs_pc = "qr"
    /\ \E scanned \in BOOLEAN :
          bs_pc' = IF scanned THEN "loop" ELSE "exit"
    /\ UNCHANGED <<bs_created, bs_open, bs_driver, bs_local, bs_call,
                   bs_attempt, bs_try, bs_left>>
    /\ NoSafeGetResult
    /\ UNCHANGED bsOthers

\* line 118 and process_single_contact lines 46-65: the next contact is
\* refused or skipped, or its chat is opened with the worker's driver
NextContact ==
    /\ bs_pc = "loop"
    /\ IF bs_left = 0
       THEN /\ bs_pc' = "exit"
            /\ UNCHANGED <<bs_left, bs_local, bs_call>>
       ELSE \E opened \in BOOLEAN :
              IF opened
              THEN /\ bs_pc' = "get"
                   /\ bs_call' = "chat"
                   /\ bs_local' = bs_driver
                   /\ UNCHANGED bs_left
              ELSE /\ bs_left' = bs_left - 1
                   /\ UNCHANGED <<bs_pc, bs_local, bs_call>>
    /\ UNCHANGED <<bs_created, bs_open, bs_driver, bs_attempt, bs_try>>
    /\ NoSafeGetResult
    /\ UNCHANGED bsOthers

\* lines 68-85: button, click and append; an exception retries the contact
\* with the worker's driver or gives it up
ClickAndAppend ==
    /\ bs_pc = "click"
    /\ \E done \in BOOLEAN :
          IF done \/ bs_try = max_retries - 1
          THEN /\ bs_pc' = "loop"
               /\ bs_left' = bs_left - 1
               /\ bs_try' = 0
               /\ UNCHANGED bs_local
          ELSE /\ bs_pc' = "get"
               /\ bs_try' = bs_try + 1
               /\ bs_local' = bs_driver
               /\ UNCHANGED bs_left
    /\ UNCHANGED <<bs_created, bs_open, bs_driver, bs_call, bs_attempt>>
    /\ NoSafeGetResult
    /\ UNCHANGED bsOthers

\* managed_driver lines 141-143: leaving the with block quits driver
ManagedDriverExit ==
    /\ bs_pc = "exit"
    /\ bs_open' = cleanup_driver(bs_driver, bs_open)
    /\ bs_pc' = "returned"
    /\ UNCHANGED <<bs_created, bs_driver, bs_local, bs_call, bs_attempt,
                   bs_try, bs_left>>
    /\ NoSafeGetResult
    /\ UNCHANGED bsOthers

\* insta-auto/utils/driver_setup.py setup_chrome_driver(): webdriver.Chrome
\* raises, or the session is returned
setup_chrome_driver(started, created, open) ==
    IF started
    THEN [raised |-> FALSE, driver |-> created + 1, created |-> created + 1,
          open |-> open \cup {created + 1}]
    ELSE [raised |-> TRUE, driver |-> 0, created |-> created, open |-> open]

\* insta-auto main() lines 14-21: nothing to do, or the driver is set up
MainSetup ==
    /\ script = "instagram"
    /\ bs_pc = "start"
    /\ IF bs_left = 0
       THEN /\ bs_pc' = "finally"
            /\ UNCHANGED <<bs_created, bs_open, bs_driver>>
       ELSE \E started \in BOOLEAN :
              LET r == setup_chrome_driver(started, bs_created, bs_open) IN
              /\ bs_created' = r.created
              /\ bs_open' = r.open
              /\ bs_driver' = r.driver
              /\ bs_pc' = IF r.raised THEN "finally" ELSE "main"
    /\ UNCHANGED <<bs_local, bs_call, bs_attempt, bs_try, bs_left>>
    /\ NoSafeGetResult
    /\ UNCHANGED bsOthers

\* main() lines 22-38: the page, the login check and the loop over the
\* usernames; any of them may raise, which ends the loop
MainBody ==
    /\ bs_pc = "main"
    /\ \E raised \in BOOLEAN :
          IF raised \/ bs_left = 0
          THEN /\ bs_pc' = "finally"
               /\ UNCHANGED bs_left
          ELSE /\ bs_left' = bs_left - 1
               /\ UNCHANGED bs_pc
    /\ UNCHANGED <<bs_created, bs_open, bs_driver, bs_local, bs_call,
                   bs_attempt, bs_try>>
    /\ NoSafeGetResult
    /\ UNCHANGED bsOthers

\* main() lines 39-41: finally, if driver: driver.quit()
MainFinally ==
    /\ bs_pc = "finally"
    /\ bs_open' = cleanup_driver(bs_driver, bs_open)
    /\ bs_pc' = "returned"
    /\ UNCHANGED <<bs_created, bs_driver, bs_local, bs_call, bs_attempt,
                   bs_try, bs_left>>
    /\ NoSafeGetResult
    /\ UNCHANGED bsOthers

BSNext ==
    \/ ManagedDriverEnter
    \/ safe_get
    \/ HandleQrCodeScan
    \/ NextContact
    \/ ClickAndAppend
    \/ ManagedDriverExit
    \/ MainSetup
    \/ MainBody
    \/ MainFinally

\* a worker or main() about to start, with some contacts or usernames
BSInit ==
    /\ bs_pc = "start"
    /\ bs_created = 0
    /\ bs_open = {}
    /\ bs_driver = 0
    /\ bs_local = 0
    /\ bs_call = "home"
    /\ bs_attempt = 0
    /\ bs_try = 0
    /\ bs_left \in 0..MaxRows
    /\ bs_result = "none"
    /\ bs_loaded = 0

BSIdle ==
    /\ bs_pc = "none"
    /\ bs_created = 0
    /\ bs_open = {}
    /\ bs_driver = 0
    /\ bs_local = 0
    /\ bs_call = "home"
    /\ bs_attempt = 0
    /\ bs_try = 0
    /\ bs_left = 0
    /\ bs_result = "none"
    /\ bs_loaded = 0

\* sender.run(): load, partition, start one thread per profile
WARun ==
    /\ wa_pc = "constructed"
    /\ LET all_contacts == load_all_contacts(csv_folder) IN
       IF ~all_contacts.ok \/ all_contacts.val = <<>>
       THEN /\ wa_pc' = "idle"
            /\ WAFreshMemoryNext
       ELSE /\ wa_pc' = "running"
            /\ contact_subset' = [p \in Profiles |-> Shard(all_contacts.val, p)]
            /\ w_pc' = [p \in Profiles |-> "start"]
            /\ UNCHANGED <<contacted_numbers, w_idx, w_attempt, w_stats, w_sent,
                           w_exit, w_summary>>
    /\ wa_start_kind' = "none"
    /\ UNCHANGED <<wa_runs, contacted_csv, csv_folder, wa_clicks, wa_recorded,
                   wa_write_failed>>
    /\ UNCHANGED waOthers

WAHistoryUnchanged == UNCHANGED <<wa_clicks, wa_recorded, wa_write_failed, wa_start_kind>>

\* WStart, but the return of line 114 leaves the function at once
WStart_QuitReturnsAtOnce(p) ==
    /\ wa_pc = "running" /\ w_pc[p] = "start"
    /\ \E outcome \in {"ok", "driver_failed", "quit", "qr_timeout"} :
          /\ w_pc' = [w_pc EXCEPT ![p] = CASE outcome = "ok" -> "loop"
                                             [] outcome = "quit" -> "done"
                                             [] OTHER -> "finally"]
          /\ w_exit' = [w_exit EXCEPT ![p] = CASE outcome = "ok" -> @
                                                [] outcome = "quit" -> "quit"
                                                [] OTHER -> "fatal_error"]
    /\ UNCHANGED <<wa_pc, wa_runs, contacted_csv, csv_folder, contacted_numbers,
                   contact_subset, w_idx, w_attempt, w_stats, w_sent, w_summary>>
    /\ WAHistoryUnchanged
    /\ UNCHANGED waOthers

\* process_contacts up to its loop: managed_driver, QR code scan
WStart(p) ==
    /\ wa_pc = "running" /\ w_pc[p] = "start"
    /\ \E outcome \in {"ok", "driver_failed", "quit", "qr_timeout"} :
          /\ w_pc' = [w_pc EXCEPT ![p] = IF outcome = "ok" THEN "loop" ELSE "finally"]
          /\ w_exit' = [w_exit EXCEPT ![p] = CASE outcome = "ok" -> @
                                                [] outcome = "quit" -> "quit"
                                                [] OTHER -> "fatal_error"]
    /\ UNCHANGED <<wa_pc, wa_runs, contacted_csv, csv_folder, contacted_numbers,
                   contact_subset, w_idx, w_attempt, w_stats, w_sent, w_summary>>
    /\ WAHistoryUnchanged
    /\ UNCHANGED waOthers

CurrentNumber(p) == contact_subset[p][w_idx[p]]

\* the loop head, and process_single_contact down to the ledger check
WCheck(p) ==
    /\ wa_pc = "running" /\ w_pc[p] = "loop"
    /\ IF w_idx[p] > Len(contact_subset[p])
       THEN /\ w_pc' = [w_pc EXCEPT ![p] = "finally"]
            /\ w_exit' = [w_exit EXCEPT ![p] = "through"]
       ELSE LET normalized_number == normalize_number(Str(CurrentNumber(p))) IN
            IF ~normalized_number.ok
            THEN /\ w_pc' = [w_pc EXCEPT ![p] = "finally"]
                 /\ w_exit' = [w_exit EXCEPT ![p] = "fatal_error"]
            ELSE /\ IF normalized_number.val \in contacted_numbers
                    THEN w_pc' = [w_pc EXCEPT ![p] = "stats"]
                    ELSE w_pc' = [w_pc EXCEPT ![p] = "attempt"]
                 /\ UNCHANGED w_exit
    /\ w_attempt' = [w_attempt EXCEPT ![p] = 0]
    /\ UNCHANGED <<wa_pc, wa_runs, contacted_csv, csv_folder, contacted_numbers,
                   contact_subset, w_idx, w_stats, w_sent, w_summary>>
    /\ WAHistoryUnchanged
    /\ UNCHANGED waOthers

\* the history counter of k raised by one; it stops counting at HistoryCap
Count(f, k) == IF k \in DOMAIN f THEN f[k] ELSE 0
Bump(f, k) ==
    [x \in DOMAIN f \cup {k} |->
        IF x = k /\ Count(f, k) < HistoryCap THEN Count(f, k) + 1 ELSE Count(f, x)]

\* RetryOrGiveUp, but the failure of the last attempt leaves process_contacts
RetryOrGiveUp_LastFailureEndsShard(p) ==
    IF w_attempt[p] = max_retries - 1
    THEN /\ w_pc' = [w_pc EXCEPT ![p] = "finally"]
         /\ w_attempt' = [w_attempt EXCEPT ![p] = 0]
    ELSE /\ w_pc' = [w_pc EXCEPT ![p] = "attempt"]
         /\ w_attempt' = [w_attempt EXCEPT ![p] = w_attempt[p] + 1]

\* the except branch of the retry loop
RetryOrGiveUp(p) ==
    IF w_attempt[p] = max_retries - 1
    THEN /\ w_pc' = [w_pc EXCEPT ![p] = "stats"]
         /\ w_attempt' = [w_attempt EXCEPT ![p] = 0]
    ELSE /\ w_pc' = [w_pc EXCEPT ![p] = "attempt"]
         /\ w_attempt' = [w_attempt EXCEPT ![p] = w_attempt[p] + 1]

\* one pass of the retry loop up to send_btn.click()
WAttempt(p) ==
    /\ wa_pc = "running" /\ w_pc[p] = "attempt"
    /\ \E outcome \in {"open_failed", "no_send_button", "click_failed", "clicked"} :
          IF outcome = "clicked"
          THEN /\ wa_clicks' = Bump(wa_clicks, normalize_number(Str(CurrentNumber(p))).val)
               /\ w_pc' = [w_pc EXCEPT ![p] = "append"]
               /\ UNCHANGED w_attempt
          ELSE /\ RetryOrGiveUp(p)
               /\ UNCHANGED wa_clicks
    /\ UNCHANGED <<wa_pc, wa_runs, contacted_csv, csv_folder, contacted_numbers,
                   contact_subset, w_idx, w_stats, w_sent,
                   wa_recorded, wa_write_failed, wa_start_kind, w_exit, w_summary>>
    /\ UNCHANGED waOthers

\* lines 72-78 under contacted_lock, and the caller's lines 121-124
WAppend(p) ==
    /\ wa_pc = "running" /\ w_pc[p] = "append"
    /\ \E written \in BOOLEAN :
          IF written
          THEN /\ contacted_csv' = safely_append_to_contacted(contacted_csv, CurrentNumber(p))
               /\ contacted_numbers' =
                     contacted_numbers \cup {normalize_number(Str(CurrentNumber(p))).val}
               /\ wa_recorded' = wa_recorded \cup {normalize_number(Str(CurrentNumber(p))).val}
               /\ w_stats' = [w_stats EXCEPT ![p].successful_sends = @ + 1]
               /\ w_sent' = [w_sent EXCEPT ![p] = Append(@, CurrentNumber(p))]
               /\ w_idx' = [w_idx EXCEPT ![p] = @ + 1]
               /\ w_pc' = [w_pc EXCEPT ![p] = "loop"]
               /\ UNCHANGED <<w_attempt, wa_write_failed>>
          ELSE /\ wa_write_failed' = TRUE
               /\ RetryOrGiveUp(p)
               /\ UNCHANGED <<contacted_csv, contacted_numbers, wa_recorded,
                              w_stats, w_sent, w_idx>>
    /\ UNCHANGED <<wa_pc, wa_runs, csv_folder, contact_subset, wa_clicks, wa_start_kind,
                   w_exit, w_summary>>
    /\ UNCHANGED waOthers

\* contact[COLUMN_NAME] in self.contacted_numbers: the set holds strings, so
\* an integer is never in it
InContacted(number, contacted) ==
    number.type = "str" /\ Str(number) \in contacted

\* lines 125-129: process_single_contact returned False
WStats(p) ==
    /\ wa_pc = "running" /\ w_pc[p] = "stats"
    /\ w_stats' = IF InContacted(CurrentNumber(p), contacted_numbers)
                  THEN [w_stats EXCEPT ![p].skipped = @ + 1]
                  ELSE [w_stats EXCEPT ![p].failed_sends = @ + 1]
    /\ w_idx' = [w_idx EXCEPT ![p] = @ + 1]
    /\ w_pc' = [w_pc EXCEPT ![p] = "loop"]
    /\ UNCHANGED <<wa_pc, wa_runs, contacted_csv, csv_folder, contacted_numbers,
                   contact_subset, w_attempt, w_sent, w_exit, w_summary>>
    /\ WAHistoryUnchanged
    /\ UNCHANGED waOthers

\* WhatsAppMessageSender._print_summary: the four lines printed
_print_summary(stats) ==
    [printed |-> TRUE,
     successfully_sent |-> stats.successful_sends,
     failed_to_send |-> stats.failed_sends,
     total_processed |-> stats.successful_sends + stats.failed_sends,
     skipped |-> stats.skipped]

\* the finally block: summary, then removal of the sent rows; the thread's
\* function returns and its locals are gone
WFinally(p) ==
    /\ wa_pc = "running" /\ w_pc[p] = "finally"
    /\ csv_folder' = remove_contacted_from_source_files(csv_folder, w_sent[p])
    /\ w_pc' = [w_pc EXCEPT ![p] = "done"]
    /\ contact_subset' = [contact_subset EXCEPT ![p] = <<>>]
    /\ w_idx' = [w_idx EXCEPT ![p] = 1]
    /\ w_attempt' = [w_attempt EXCEPT ![p] = 0]
    /\ w_stats' = [w_stats EXCEPT ![p] = NoStats]
    /\ w_sent' = [w_sent EXCEPT ![p] = <<>>]
    /\ w_summary' = [w_summary EXCEPT ![p] = _print_summary(w_stats[p])]
    /\ UNCHANGED <<wa_pc, wa_runs, contacted_csv, contacted_numbers, w_exit>>
    /\ WAHistoryUnchanged
    /\ UNCHANGED waOthers

\* run() after the joins; main() returns and the process ends
WAJoin ==
    /\ wa_pc = "running"
    /\ \A p \in Profiles : w_pc[p] = "done"
    /\ wa_pc' = "idle"
    /\ WAFreshMemoryNext
    /\ UNCHANGED <<wa_runs, contacted_csv, csv_folder>>
    /\ WAHistoryUnchanged
    /\ UNCHANGED waOthers

\* a single process, from whatever files it finds
WAOneRunNext ==
    \/ wa_runs = 0 /\ WAConstruct
    \/ WARun
    \/ \E p \in Profiles : WStart(p)
    \/ \E p \in Profiles : WCheck(p)
    \/ \E p \in Profiles : WAttempt(p)
    \/ \E p \in Profiles : WAppend(p)
    \/ \E p \in Profiles : WStats(p)
    \/ \E p \in Profiles : WFinally(p)
    \/ WAJoin

\* processes one after the other
WANext ==
    \/ WAConstruct
    \/ WARun
    \/ \E p \in Profiles : WStart(p)
    \/ \E p \in Profiles : WCheck(p)
    \/ \E p \in Profiles : WAttempt(p)
    \/ \E p \in Profiles : WAppend(p)
    \/ \E p \in Profiles : WStats(p)
    \/ \E p \in Profiles : WFinally(p)
    \/ WAJoin

(***************************************************************************)
(* The files a WhatsApp run may start from.                                 *)
(***************************************************************************)
N8 == <<"1", "2", "3", "4", "5", "6", "7", "8">>
Z9 == <<"0">> \o N8
S8 == <<"1", "2", "3", "4", " ", "5", "6", "7", "8">>
M8 == <<"2", "3", "4", "5", "6", "7", "8", "9">>
BAD == <<"a", "b", "c">>
SHORT == <<"1", "2", "3", "4", "5", "6", "7">>

WACells == {Z9, S8, BAD}

RowsUpTo(n) == UNION {[1..k -> WACells] : k \in 0..n}

SourceFolders ==
    {NoFolder}
    \cup {Folder(<<to_csv(COLUMN_NAME, rows)>>) : rows \in RowsUpTo(MaxRows)}
    \cup {Folder(<<to_csv(COLUMN_NAME, a), to_csv(COLUMN_NAME, b)>>) :
            a \in RowsUpTo(1) \ {<<>>}, b \in RowsUpTo(MaxRows - 1) \ {<<>>}}
    \cup {Folder(<<to_csv(<<"name">>, <<N8>>), to_csv(COLUMN_NAME, <<M8>>)>>)}

\* a ledger earlier runs have written
WrittenLedgers == {to_csv(COLUMN_NAME, <<S8>>), to_csv(COLUMN_NAME, <<N8, M8>>)}

LedgerFiles ==
    {Missing, Unreadable, File(<<>>), to_csv(COLUMN_NAME, <<>>),
     to_csv(<<"name">>, <<N8>>), to_csv(N8, <<M8>>),
     to_csv(COLUMN_NAME, <<BAD>>), to_csv(COLUMN_NAME, <<N8, SHORT>>)}

WAIdle ==
    /\ wa_pc = "idle"
    /\ wa_runs = 0
    /\ contacted_csv = Missing
    /\ csv_folder = NoFolder
    /\ WAFreshMemory
    /\ wa_clicks = <<>>
    /\ wa_recorded = {}
    /\ wa_write_failed = FALSE
    /\ wa_start_kind = "none"

WAInit ==
    /\ wa_pc = "idle"
    /\ wa_runs = 0
    /\ contacted_csv \in LedgerFiles
    /\ csv_folder \in SourceFolders
    /\ WAFreshMemory
    /\ wa_clicks = <<>>
    /\ wa_recorded = {}
    /\ wa_write_failed = FALSE
    /\ wa_start_kind = "none"

WAInitOneRun ==
    /\ wa_pc = "idle"
    /\ wa_runs = 0
    /\ contacted_csv \in LedgerFiles \cup WrittenLedgers
    /\ csv_folder \in SourceFolders
    /\ WAFreshMemory
    /\ wa_clicks = <<>>
    /\ wa_recorded = {}
    /\ wa_write_failed = FALSE
    /\ wa_start_kind = "none"

\* a folder whose contacts give the first profile a shard of two, and a
\* ledger that holds the contacts of the other two profiles already
P8 == <<"3", "4", "5", "6", "7", "8", "9", "0">>
Q8 == <<"4", "5", "6", "7", "8", "9", "0", "1">>
WAInitShards ==
    /\ wa_pc = "idle"
    /\ wa_runs = 0
    /\ contacted_csv \in {to_csv(COLUMN_NAME, <<P8, Q8>>),
                          to_csv(COLUMN_NAME, <<M8, P8, Q8>>)}
    /\ csv_folder = Folder(<<to_csv(COLUMN_NAME, <<N8, M8, P8, Q8>>)>>)
    /\ WAFreshMemory
    /\ wa_clicks = <<>>
    /\ wa_recorded = {}
    /\ wa_write_failed = FALSE
    /\ wa_start_kind = "none"

\* ---- the removals of the threads' finally blocks, file read and file
\* write apart: nothing in process_contacts or in
\* remove_contacted_from_source_files holds a lock around them

\* lines 159-174: the file is read and the rows to keep are worked out; a
\* row that fails normalize_number raises, which ends the file
FilterFile(file, normalized_contacted) ==
    LET df == read_csv(file) IN
    IF ~(df.ok /\ df.val.column = COLUMN_NAME) THEN [write |-> FALSE, kept |-> <<>>]
    ELSE LET values == df.val.values
             kept == SelectSeq(values,
                        LAMBDA v : normalize_number(v).val \notin normalized_contacted)
         IN  IF \E i \in 1..Len(values) : ~normalize_number(values[i]).ok
             THEN [write |-> FALSE, kept |-> <<>>]
             ELSE [write |-> Len(values) - Len(kept) > 0, kept |-> kept]

\* the loop over csv_files goes to the next file or is through
RmNextFile(p) ==
    IF rm_file[p] < Len(rm_folder.files)
    THEN /\ rm_file' = [rm_file EXCEPT ![p] = @ + 1]
         /\ rm_pc' = [rm_pc EXCEPT ![p] = "read"]
    ELSE /\ rm_pc' = [rm_pc EXCEPT ![p] = "done"]
         /\ UNCHANGED rm_file

\* process_contacts lines 136-139 and remove_contacted_from_source_files
\* lines 137-152: nothing sent, nothing to do
RmFinally(p) ==
    /\ rm_pc[p] = "finally"
    /\ rm_pc' = [rm_pc EXCEPT ![p] =
                    IF rm_sent[p] = <<>> \/ Normalized(rm_sent[p]) = {}
                       \/ ~rm_folder.exists \/ rm_folder.files = <<>>
                    THEN "done" ELSE "read"]
    /\ UNCHANGED <<rm_folder, rm_sent, rm_file, rm_filtered>>
    /\ UNCHANGED rmOthers

\* lines 156-174: pd.read_csv and the mask
RmRead(p) ==
    /\ rm_pc[p] = "read"
    /\ LET f == FilterFile(rm_folder.files[rm_file[p]], Normalized(rm_sent[p])) IN
       IF f.write
       THEN /\ rm_filtered' = [rm_filtered EXCEPT ![p] = f.kept]
            /\ rm_pc' = [rm_pc EXCEPT ![p] = "write"]
            /\ UNCHANGED rm_file
       ELSE /\ RmNextFile(p)
            /\ UNCHANGED rm_filtered
    /\ UNCHANGED <<rm_folder, rm_sent>>
    /\ UNCHANGED rmOthers

\* lines 176-180: df_filtered.to_csv(file_path, index=False)
RmWrite(p) ==
    /\ rm_pc[p] = "write"
    /\ rm_folder' = [rm_folder EXCEPT !.files[rm_file[p]] =
                        to_csv(COLUMN_NAME, rm_filtered[p])]
    /\ rm_filtered' = [rm_filtered EXCEPT ![p] = <<>>]
    /\ RmNextFile(p)
    /\ UNCHANGED rm_sent
    /\ UNCHANGED rmOthers

RMNext == \E p \in Profiles : RmFinally(p) \/ RmRead(p) \/ RmWrite(p)

\* the folders the threads' contacts came from: one file with a contact for
\* each thread, or two files
RemovalFolders ==
    {Folder(<<to_csv(COLUMN_NAME, <<N8, M8, P8>>)>>),
     Folder(<<to_csv(COLUMN_NAME, <<N8, M8>>), to_csv(COLUMN_NAME, <<P8, Q8>>)>>)}

\* every thread is at its finally block and has sent its contact or not
RMInit ==
    /\ rm_folder \in RemovalFolders
    /\ rm_pc = [p \in Profiles |-> "finally"]
    /\ LET all_contacts == load_all_contacts(rm_folder).val IN
       rm_sent \in [Profiles -> {<<>>} \cup
                        {<<all_contacts[k]>> : k \in 1..Len(all_contacts)}]
    /\ \A p, q \in Profiles : (p # q /\ rm_sent[p] # <<>>) => rm_sent[p] # rm_sent[q]
    /\ rm_file = [p \in Profiles |-> 1]
    /\ rm_filtered = [p \in Profiles |-> <<>>]

RMIdle ==
    /\ rm_pc = [p \in Profiles |-> "none"]
    /\ rm_folder = NoFolder
    /\ rm_sent = [p \in Profiles |-> <<>>]
    /\ rm_file = [p \in Profiles |-> 1]
    /\ rm_filtered = [p \in Profiles |-> <<>>]

NNIdle ==
    /\ nn_pc = "idle"
    /\ nn_input = <<>>
    /\ nn_result = NoResult
    /\ nn_again = NoResult

(***************************************************************************)
(* insta-auto: utils/data_handler.py.  A line of usernames.csv or           *)
(* messaged.csv is its sequence of fields; every line of a file has as many *)
(* fields as the file's first line.                                         *)
(***************************************************************************)
USERNAME == <<"username">>
TIMESTAMP == <<"timestamp">>
\* time.strftime('%Y-%m-%d %H:%M:%S')
Now == <<"2024-01-01 00:00:00">>

\* pd.read_csv(path): the header line and the data lines
read_table(file) ==
    IF file = Missing THEN Raise("FileNotFoundError")
    ELSE IF file = Unreadable THEN Raise("OSError")
    ELSE IF file.lines = <<>> THEN Raise("EmptyDataError")
    ELSE Ok([columns |-> Head(file.lines), rows |-> Tail(file.lines)])

\* df[name].tolist(), as text
Column(df, name) ==
    IF \E j \in 1..Len(df.columns) : df.columns[j] = name
    THEN LET j == CHOOSE k \in 1..Len(df.columns) :
                     /\ df.columns[k] = name
                     /\ \A m \in 1..(k - 1) : df.columns[m] # name
         IN  Ok(ColumnValues([i \in 1..Len(df.rows) |-> df.rows[i][j]]))
    ELSE Raise("KeyError")

\* read_csv(path)[name].tolist(), or the exception of either step
ReadColumn(file, name) ==
    LET df == read_table(file) IN
    IF df.ok THEN Column(df.val, name) ELSE df

SeqToSet(q) == {q[i] : i \in 1..Len(q)}

\* load_usernames(): only FileNotFoundError of the ledger is handled; every
\* other exception is logged by the outer handler and raised again
load_usernames ==
    LET listed == ReadColumn(usernames_csv, USERNAME)
        messaged_users == ReadColumn(messaged_csv, USERNAME)
    IN  IF ~listed.ok THEN listed
        ELSE IF messaged_users.ok
             THEN Ok(SelectSeq(listed.val, LAMBDA u : u \notin SeqToSet(messaged_users.val)))
             ELSE IF messaged_users.err = "FileNotFoundError" THEN listed
                  ELSE messaged_users

\* record_messaged_user(username, timestamp), when the write goes through
record_messaged_user(file, username, timestamp) ==
    IF file.state # "file" THEN File(<<<<username, timestamp>>>>)
    ELSE File(Append(file.lines, <<username, timestamp>>))

\* remove_username_from_file(username), when read and write go through; a
\* file without the column is left alone (the KeyError is logged)
remove_username_from_file(file, username) ==
    LET df == read_table(file) IN
    IF ~df.ok \/ ~Column(df.val, USERNAME).ok \/ Len(df.val.columns) # 1 THEN file
    ELSE File(<<df.val.columns>> \o
              [i \in 1..Len(SelectSeq(Column(df.val, USERNAME).val,
                                      LAMBDA u : u # username)) |->
                  <<SelectSeq(Column(df.val, USERNAME).val, LAMBDA u : u # username)[i]>>])

(***************************************************************************)
(* insta-auto: main.py                                                     *)
(***************************************************************************)
IGLedgerKind(file) ==
    IF file = Missing THEN "missing"
    ELSE IF file = Unreadable THEN "unreadable"
    ELSE IF file.lines = <<>> THEN "empty"
    ELSE IF ~ReadColumn(file, USERNAME).ok THEN "no_column"
    ELSE IF Len(file.lines) = 1 THEN "header_only"
    ELSE "entries"

IGFreshMemoryNext ==
    /\ usernames' = <<>>
    /\ ig_idx' = 1

\* main() up to "if not usernames: return"; an exception of load_usernames
\* reaches main()'s handler and the process ends
IGLoad ==
    /\ ig_pc = "idle"
    /\ ig_runs < MaxRuns
    /\ ig_runs' = ig_runs + 1
    /\ ig_start_kind' = IGLedgerKind(messaged_csv)
    /\ ig_known' = ig_recorded
    /\ ig_attempts' = <<>>
    /\ ig_outcome' = "none"
    /\ IF ~load_usernames.ok
       THEN /\ ig_load' = "raised"
            /\ ig_pc' = "idle"
            /\ IGFreshMemoryNext
       ELSE /\ ig_load' = "ok"
            /\ ig_pc' = IF load_usernames.val = <<>> THEN "idle" ELSE "setup"
            /\ usernames' = load_usernames.val
            /\ ig_idx' = 1
    /\ UNCHANGED <<usernames_csv, messaged_csv, ig_recorded, ig_from_missing>>
    /\ UNCHANGED igOthers

\* setup_chrome_driver, driver.get, the login check, the sender
IGSetup ==
    /\ ig_pc = "setup"
    /\ \E outcome \in {"ok", "driver_failed", "not_logged_in"} :
          IF outcome = "ok"
          THEN /\ ig_pc' = "loop"
               /\ UNCHANGED <<usernames, ig_idx>>
          ELSE /\ ig_pc' = "idle"
               /\ IGFreshMemoryNext
    /\ UNCHANGED <<ig_runs, usernames_csv, messaged_csv, ig_attempts, ig_outcome, ig_load,
                   ig_start_kind, ig_recorded, ig_known, ig_from_missing>>
    /\ UNCHANGED igOthers

\* InstagramMessageSender.send_message returns True when the profile exists,
\* the message window opened and the text showed up in the page; every other
\* way it ends, an exception included, returns False
send_message_InvalidProfileIsTrue(outcome) == outcome \in {"sent", "invalid_profile"}

send_message(outcome) == outcome = "sent"

\* one pass of the for loop: send_message, and on True the two file updates,
\* each of which swallows its own failure
IGSend ==
    /\ ig_pc = "loop"
    /\ ig_idx <= Len(usernames)
    /\ LET username == usernames[ig_idx] IN
       /\ ig_attempts' = Bump(ig_attempts, username)
       /\ \E sent \in {"invalid_profile", "no_message_button", "not_sent", "sent"},
             recorded \in BOOLEAN, removed \in BOOLEAN :
             /\ ig_outcome' = sent
             /\ IF send_message(sent)
                THEN /\ messaged_csv' = IF recorded
                                        THEN record_messaged_user(messaged_csv, username, Now)
                                        ELSE messaged_csv
                     /\ ig_recorded' = IF recorded THEN ig_recorded \cup {username}
                                       ELSE ig_recorded
                     /\ usernames_csv' = IF removed
                                         THEN remove_username_from_file(usernames_csv, username)
                                         ELSE usernames_csv
                ELSE /\ ~recorded /\ ~removed
                     /\ UNCHANGED <<messaged_csv, ig_recorded, usernames_csv>>
    /\ ig_idx' = ig_idx + 1
    /\ UNCHANGED <<ig_pc, ig_runs, usernames, ig_load, ig_start_kind, ig_known,
                   ig_from_missing>>
    /\ UNCHANGED igOthers

\* the loop is through; finally: driver.quit(), and the process ends
IGFinish ==
    /\ ig_pc = "loop"
    /\ ig_idx > Len(usernames)
    /\ ig_pc' = "idle"
    /\ IGFreshMemoryNext
    /\ UNCHANGED <<ig_runs, usernames_csv, messaged_csv, ig_attempts, ig_outcome, ig_load,
                   ig_start_kind, ig_recorded, ig_known, ig_from_missing>>
    /\ UNCHANGED igOthers

IGNext == IGLoad \/ IGSetup \/ IGSend \/ IGFinish

(***************************************************************************)
(* The files an Instagram run may start from.                               *)
(***************************************************************************)
ALICE == <<"a", "l", "i", "c", "e">>
BOB == <<"b", "o", "b">>

\* usernames that are not numbers: both files' username columns are read as
\* strings
IGNames == {ALICE, BOB}

UsernameFiles ==
    {Missing, File(<<<<COLUMN_NAME>>, <<ALICE>>>>)}
    \cup {File(<<<<USERNAME>>>> \o [i \in 1..Len(rows) |-> <<rows[i]>>]) :
            rows \in UNION {[1..k -> IGNames] : k \in 0..MaxRows}}

MessagedFiles ==
    {Missing, Unreadable, File(<<>>), File(<<<<USERNAME, TIMESTAMP>>>>),
     File(<<<<USERNAME, TIMESTAMP>>, <<ALICE, Now>>>>),
     File(<<<<ALICE, Now>>>>)}

IGIdle ==
    /\ ig_pc = "idle"
    /\ ig_runs = 0
    /\ usernames_csv = Missing
    /\ messaged_csv = Missing
    /\ usernames = <<>>
    /\ ig_idx = 1
    /\ ig_attempts = <<>>
    /\ ig_outcome = "none"
    /\ ig_load = "none"
    /\ ig_start_kind = "none"
    /\ ig_recorded = {}
    /\ ig_known = {}
    /\ ig_from_missing = FALSE

IGInit ==
    /\ ig_pc = "idle"
    /\ ig_runs = 0
    /\ usernames_csv \in UsernameFiles
    /\ messaged_csv \in MessagedFiles
    /\ usernames = <<>>
    /\ ig_idx = 1
    /\ ig_attempts = <<>>
    /\ ig_outcome = "none"
    /\ ig_load = "none"
    /\ ig_start_kind = "none"
    /\ ig_recorded = {}
    /\ ig_known = {}
    /\ ig_from_missing = (messaged_csv = Missing)

(***************************************************************************)
(* email-automation: email_automation.py, EmailAutomation.send_emails.      *)
(* One spreadsheet with one worksheet; a cell is text, and a record maps    *)
(* each header to the row's cell under it.                                  *)
(***************************************************************************)
UpperLetters == <<"A", "B", "C", "D", "E", "F", "G", "H", "I", "J", "K", "L", "M",
                  "N", "O", "P", "Q", "R", "S", "T", "U", "V", "W", "X", "Y", "Z">>
LowerLetters == <<"a", "b", "c", "d", "e", "f", "g", "h", "i", "j", "k", "l", "m",
                  "n", "o", "p", "q", "r", "s", "t", "u", "v", "w", "x", "y", "z">>

\* str.lower() on ASCII text
LowerChar(c) ==
    IF \E k \in 1..Len(UpperLetters) : UpperLetters[k] = c
    THEN LowerLetters[CHOOSE k \in 1..Len(UpperLetters) : UpperLetters[k] = c]
    ELSE c
Lower(s) == [k \in 1..Len(s) |-> LowerChar(s[k])]

\* the keys send_emails reads
KeyStatus == <<"S", "t", "a", "t", "u", "s">>
KeyIsSent == <<"i", "s", "S", "e", "n", "t", "?">>
KeyEmail == <<"E", "m", "a", "i", "l">>
KeySubject == <<"S", "u", "b", "j", "e", "c", "t">>
KeyBody == <<"B", "o", "d", "y">>

\* the cell send_emails writes
TrueText == <<"T", "r", "u", "e">>

\* worksheet.get_all_records()
get_all_records(ws) ==
    [r \in 1..Len(ws.rows) |->
        [h \in SeqToSet(ws.headers) |->
            ws.rows[r][CHOOSE j \in 1..Len(ws.headers) : ws.headers[j] = h]]]

\* record.get(key, "")
Get(record, key) == IF key \in DOMAIN record THEN record[key] ELSE <<>>

\* lines 316-320 and the condition of lines 330-336
ShouldAttempt_SentAsRead(record) ==
    /\ Lower(Strip(Get(record, KeyStatus))) = <<"a", "p", "p", "r", "o", "v", "e", "d">>
    /\ Strip(Get(record, KeyIsSent)) \notin {<<"t", "r", "u", "e">>, <<"y", "e", "s">>, <<"1">>}
    /\ Strip(Get(record, KeyEmail)) # <<>>
    /\ Strip(Get(record, KeySubject)) # <<>>
    /\ Strip(Get(record, KeyBody)) # <<>>

ShouldAttempt(record) ==
    LET status == Strip(Get(record, KeyStatus))
        is_sent == Lower(Strip(Get(record, KeyIsSent)))
        email == Strip(Get(record, KeyEmail))
        subject == Strip(Get(record, KeySubject))
        body == Strip(Get(record, KeyBody))
    IN  /\ Lower(status) = <<"a", "p", "p", "r", "o", "v", "e", "d">>
        /\ is_sent \notin {<<"t", "r", "u", "e">>, <<"y", "e", "s">>, <<"1">>}
        /\ email # <<>>
        /\ subject # <<>>
        /\ body # <<>>

\* smtp_configs of lines 383-390
NumSmtpConfigs == 6

\* lines 437-449: the first header that is a spelling of the sent column
SentHeaderNames == {<<"s", "e", "n", "t", "?">>, <<"i", "s", "s", "e", "n", "t", "?">>, <<"i", "s", " ", "s", "e", "n", "t", "?">>, <<"i", "s", "s", "e", "n", "t">>, <<"s", "e", "n", "t">>}
IsSentHeader(header) == Lower(Strip(header)) \in SentHeaderNames
SentColumn(headers) ==
    IF \E j \in 1..Len(headers) : IsSentHeader(headers[j])
    THEN CHOOSE j \in 1..Len(headers) :
            /\ IsSentHeader(headers[j])
            /\ \A k \in 1..(j - 1) : ~IsSentHeader(headers[k])
    ELSE 0

\* update_cell, but the header row is not counted: record i goes to sheet row i
update_cell_RowAbove(ws, i, j, text) ==
    [ws EXCEPT !.rows[IF i > 1 THEN i - 1 ELSE i][j] = text]

\* worksheet.update_cell(i + 1, j, "True")
update_cell(ws, i, j, text) ==
    [ws EXCEPT !.rows[i][j] = text]

\* lines 474-490: the four counters as printed, and the closing line
PrintSummary(total, approved, not_approved, sent) ==
    [printed |-> TRUE, total_rows |-> total, approved_rows |-> approved,
     not_approved_rows |-> not_approved, emails_sent |-> sent,
     line |-> IF sent = 0
              THEN IF not_approved > 0 /\ approved = 0 THEN "no approved emails found"
                   ELSE IF approved > 0
                        THEN "may be missing required fields or already sent"
                        ELSE "no data found in sheets"
              ELSE "successfully sent"]

EMFreshMemoryNext ==
    /\ records' = <<>>
    /\ em_i' = 1
    /\ em_cfg' = 1
    /\ emails_sent' = 0
    /\ total_rows' = 0
    /\ approved_rows' = 0
    /\ not_approved_rows' = 0
    /\ sent_folder_saves' = 0

\* send_emails up to the loop over the records: the connection and the
\* credentials are there or the function returns; opening the spreadsheet
\* or reading its records may raise, which ends the sheet
EmStart ==
    /\ em_pc = "idle"
    /\ em_runs < MaxRuns
    /\ em_runs' = em_runs + 1
    /\ em_attempted' = {}
    /\ em_delivered' = 0
    /\ em_marked_before' = em_marked
    /\ \E outcome \in {"not_configured", "sheet_failed", "ok"} :
          /\ em_pc' = CASE outcome = "not_configured" -> "idle"
                        [] outcome = "sheet_failed" -> "summary"
                        [] OTHER -> "rows"
          /\ records' = IF outcome = "ok" THEN get_all_records(worksheet) ELSE <<>>
    /\ em_i' = 1
    /\ em_cfg' = 1
    /\ emails_sent' = 0
    /\ total_rows' = 0
    /\ approved_rows' = 0
    /\ not_approved_rows' = 0
    /\ em_printed' = NoSummary
    /\ sent_folder_saves' = 0
    /\ UNCHANGED <<worksheet, em_marked>>
    /\ UNCHANGED emOthers

\* EmRow, but a row whose status is blank is counted in neither group
EmRow_BlankStatusUncounted ==
    /\ em_pc = "rows"
    /\ em_i <= Len(records)
    /\ total_rows' = total_rows + 1
    /\ IF Lower(Strip(Get(records[em_i], KeyStatus))) = <<"a", "p", "p", "r", "o", "v", "e", "d">>
       THEN /\ approved_rows' = approved_rows + 1
            /\ UNCHANGED not_approved_rows
       ELSE /\ not_approved_rows' = IF Strip(Get(records[em_i], KeyStatus)) = <<>>
                                     THEN not_approved_rows
                                     ELSE not_approved_rows + 1
            /\ UNCHANGED approved_rows
    /\ IF ShouldAttempt(records[em_i])
       THEN /\ em_pc' = "smtp"
            /\ em_attempted' = em_attempted \cup {em_i}
            /\ UNCHANGED em_i
       ELSE /\ em_i' = em_i + 1
            /\ UNCHANGED <<em_pc, em_attempted>>
    /\ em_cfg' = 1
    /\ em_delivered' = 0
    /\ UNCHANGED <<em_runs, worksheet, records, emails_sent, em_marked, em_marked_before,
                   em_printed, sent_folder_saves>>
    /\ UNCHANGED emOthers

\* one record up to the decision of lines 330-336
EmRow ==
    /\ em_pc = "rows"
    /\ em_i <= Len(records)
    /\ total_rows' = total_rows + 1
    /\ IF Lower(Strip(Get(records[em_i], KeyStatus))) = <<"a", "p", "p", "r", "o", "v", "e", "d">>
       THEN /\ approved_rows' = approved_rows + 1
            /\ UNCHANGED not_approved_rows
       ELSE /\ not_approved_rows' = not_approved_rows + 1
            /\ UNCHANGED approved_rows
    /\ IF ShouldAttempt(records[em_i])
       THEN /\ em_pc' = "smtp"
            /\ em_attempted' = em_attempted \cup {em_i}
            /\ UNCHANGED em_i
       ELSE /\ em_i' = em_i + 1
            /\ UNCHANGED <<em_pc, em_attempted>>
    /\ em_cfg' = 1
    /\ em_delivered' = 0
    /\ UNCHANGED <<em_runs, worksheet, records, emails_sent, em_marked, em_marked_before,
                   em_printed, sent_folder_saves>>
    /\ UNCHANGED emOthers

\* AllConfigsFailed, but the row is counted as sent
AllConfigsFailed_CountedAsSent ==
    /\ em_pc' = "rows"
    /\ em_i' = em_i + 1
    /\ em_cfg' = 1
    /\ emails_sent' = emails_sent + 1

\* lines 426-427 and 453-454: "All SMTP configurations failed" is raised past
\* the save, the counter and the sent cell, and the row's handler prints it
AllConfigsFailed ==
    /\ em_pc' = "rows"
    /\ em_i' = em_i + 1
    /\ em_cfg' = 1
    /\ UNCHANGED emails_sent

\* one pass of the loop over smtp_configs.  server.quit() stands inside the
\* try block after sendmail: when it raises, the except branch runs and the
\* loop goes on to the next configuration.  After the last configuration
\* "All SMTP configurations failed" is raised and caught by the row's handler.
EmTryConfig ==
    /\ em_pc = "smtp"
    /\ \E outcome \in {"connect_failed", "login_failed", "send_failed",
                       "quit_failed", "ok"} :
          /\ em_delivered' = IF outcome \in {"quit_failed", "ok"}
                             THEN (IF em_delivered < HistoryCap THEN em_delivered + 1
                                   ELSE em_delivered)
                             ELSE em_delivered
          /\ IF outcome = "ok"
             THEN /\ em_pc' = "sent"
                  /\ UNCHANGED <<em_cfg, em_i, emails_sent>>
             ELSE IF em_cfg < NumSmtpConfigs
                  THEN /\ em_cfg' = em_cfg + 1
                       /\ UNCHANGED <<em_pc, em_i, emails_sent>>
                  ELSE AllConfigsFailed
    /\ UNCHANGED <<em_runs, worksheet, records, total_rows, approved_rows,
                   not_approved_rows, em_attempted, em_marked, em_marked_before,
                   em_printed, sent_folder_saves>>
    /\ UNCHANGED emOthers

\* lines 429-451: the copy to the Sent folder (which never raises), the
\* counter, and the sent cell; row_values and update_cell may raise, which
\* the row's handler catches
EmMark ==
    /\ em_pc = "sent"
    /\ sent_folder_saves' = sent_folder_saves + 1
    /\ emails_sent' = emails_sent + 1
    /\ \E outcome \in {"api_failed", "ok"} :
          IF outcome = "ok" /\ SentColumn(worksheet.headers) # 0
          THEN /\ worksheet' = update_cell(worksheet, em_i,
                                           SentColumn(worksheet.headers), TrueText)
               /\ em_marked' = em_marked \cup {em_i}
          ELSE UNCHANGED <<worksheet, em_marked>>
    /\ em_pc' = "rows"
    /\ em_i' = em_i + 1
    /\ em_cfg' = 1
    /\ UNCHANGED <<em_runs, records, total_rows, approved_rows, not_approved_rows,
                   em_delivered, em_attempted, em_marked_before, em_printed>>
    /\ UNCHANGED emOthers

\* the records are through
EmRowsDone ==
    /\ em_pc = "rows"
    /\ em_i > Len(records)
    /\ em_pc' = "summary"
    /\ UNCHANGED <<em_runs, worksheet, records, em_i, em_cfg, emails_sent, total_rows,
                   approved_rows, not_approved_rows, em_delivered, em_attempted,
                   em_marked, em_marked_before, em_printed, sent_folder_saves>>
    /\ UNCHANGED emOthers

\* lines 474-490, and the function returns
EmSummary ==
    /\ em_pc = "summary"
    /\ em_pc' = "idle"
    /\ em_printed' = PrintSummary(total_rows, approved_rows, not_approved_rows,
                                  emails_sent)
    /\ EMFreshMemoryNext
    /\ UNCHANGED <<em_runs, worksheet, em_delivered, em_attempted, em_marked,
                   em_marked_before>>
    /\ UNCHANGED emOthers

\* a single run of send_emails
EMOneRunNext ==
    \/ em_runs = 0 /\ EmStart
    \/ EmRow
    \/ EmTryConfig
    \/ EmMark
    \/ EmRowsDone
    \/ EmSummary

\* runs one after the other over the same sheet
EMNext == EmStart \/ EmRow \/ EmTryConfig \/ EmMark \/ EmRowsDone \/ EmSummary

(***************************************************************************)
(* One delivery attempt: the loop over smtp_configs as send_emails has it   *)
(* inline (email_automation.py lines 392-427) and as EmailSender.send_email *)
(* has it on top of try_smtp_connection (email_sender.py lines 67-131).     *)
(***************************************************************************)
\* lines 384-389 and Config.DEFAULT_SMTP_CONFIGS: the connection types of the
\* configurations after the first
DEFAULT_SMTP_CONFIGS == <<"SSL", "TLS", "TLS", "SSL", "TLS">>

\* line 384: the first configuration is "SSL" if smtp_port == 465 else "TLS"
connection_type(cfg, port) ==
    IF cfg = 1 THEN (IF port = 465 THEN "SSL" ELSE "TLS")
    ELSE DEFAULT_SMTP_CONFIGS[cfg - 1]

\* what a configuration may do: the step that raises, or "ok"; starttls is
\* called for "TLS" only
ConfigOutcomes(type) ==
    {"connect_failed", "login_failed", "send_failed", "quit_failed", "ok"}
    \cup (IF type = "TLS" THEN {"starttls_failed"} ELSE {})

\* the loop goes to the next configuration or is through
NextConfig ==
    IF sm_cfg < NumSmtpConfigs
    THEN /\ sm_cfg' = sm_cfg + 1
         /\ UNCHANGED sm_pc
    ELSE /\ sm_pc' = "after_loop"
         /\ UNCHANGED sm_cfg

\* send_emails lines 393-424, one configuration.  A constructor that raises
\* leaves the variable server as it was.  The except branch calls
\* server.quit() whenever server is set, which closes that connection
\* (smtplib closes the socket also when the QUIT command itself fails).
TrySmtpConfig ==
    /\ sm_caller = "send_emails"
    /\ sm_pc = "config"
    /\ \E outcome \in ConfigOutcomes(connection_type(sm_cfg, smtp_port)) :
          IF outcome = "ok"
          THEN /\ server' = sm_cfg
               /\ sm_open' = (sm_open \cup {sm_cfg}) \ {server'}
               /\ sm_success' = TRUE
               /\ sm_pc' = "after_loop"
               /\ UNCHANGED <<sm_error, sm_cfg>>
          ELSE /\ server' = IF outcome = "connect_failed" THEN server ELSE sm_cfg
               /\ sm_open' = (IF outcome = "connect_failed" THEN sm_open
                               ELSE sm_open \cup {sm_cfg}) \ {server'}
               /\ sm_error' = outcome
               /\ NextConfig
               /\ UNCHANGED sm_success
    /\ UNCHANGED <<sm_caller, smtp_port, sm_reported>>
    /\ UNCHANGED smOthers

\* try_smtp_connection (email_sender.py lines 67-87): the SMTP object is a
\* local variable; when starttls or login raises, the except branch prints
\* and returns None and nothing closes the connection that was opened
try_smtp_connection(outcome, cfg, open) ==
    CASE outcome = "connect_failed" -> [server |-> 0, open |-> open]
      [] outcome \in {"starttls_failed", "login_failed"} ->
            [server |-> 0, open |-> open \cup {cfg}]
      [] OTHER -> [server |-> cfg, open |-> open \cup {cfg}]

\* EmailSender.send_email lines 108-131, one configuration: sendmail and
\* quit; an exception there calls server.quit() in the except branch
TrySenderConfig ==
    /\ sm_caller = "send_email"
    /\ sm_pc = "config"
    /\ \E outcome \in ConfigOutcomes(connection_type(sm_cfg, smtp_port)) :
          LET c == try_smtp_connection(outcome, sm_cfg, sm_open) IN
          /\ server' = c.server
          /\ IF c.server = 0
             THEN /\ sm_open' = c.open
                  /\ sm_error' = outcome
                  /\ NextConfig
                  /\ UNCHANGED sm_success
             ELSE IF outcome = "ok"
             THEN /\ sm_open' = c.open \ {c.server}
                  /\ sm_success' = TRUE
                  /\ sm_pc' = "after_loop"
                  /\ UNCHANGED <<sm_error, sm_cfg>>
             ELSE /\ sm_open' = c.open \ {c.server}
                  /\ sm_error' = outcome
                  /\ NextConfig
                  /\ UNCHANGED sm_success
    /\ UNCHANGED <<sm_caller, smtp_port, sm_reported>>
    /\ UNCHANGED smOthers

\* send_emails lines 426-427, 453-454 and send_email lines 133-141: without a
\* success "All SMTP configurations failed" is raised, and the handler
\* prints "Failed to send email to ...:" with that exception
AfterSmtpLoop ==
    /\ sm_pc = "after_loop"
    /\ sm_reported' = IF sm_success THEN "none" ELSE "All SMTP configurations failed"
    /\ sm_pc' = "returned"
    /\ UNCHANGED <<sm_caller, smtp_port, sm_cfg, server, sm_open, sm_error, sm_success>>
    /\ UNCHANGED smOthers

SMNext == TrySmtpConfig \/ TrySenderConfig \/ AfterSmtpLoop

\* at the head of the loop: server = None, success = False
SMInit ==
    /\ sm_pc = "config"
    /\ sm_caller \in {"send_emails", "send_email"}
    /\ smtp_port \in {465, 587}
    /\ sm_cfg = 1
    /\ server = 0
    /\ sm_open = {}
    /\ sm_error = "none"
    /\ sm_success = FALSE
    /\ sm_reported = "none"

SMIdle ==
    /\ sm_pc = "none"
    /\ sm_caller = "send_emails"
    /\ smtp_port = 465
    /\ sm_cfg = 1
    /\ server = 0
    /\ sm_open = {}
    /\ sm_error = "none"
    /\ sm_success = FALSE
    /\ sm_reported = "none"

(***************************************************************************)
(* The worksheets an email run may start from.                              *)
(***************************************************************************)
Row(status, sent, email, subject, body) == <<status, sent, email, subject, body>>

Approved == <<"A", "p", "p", "r", "o", "v", "e", "d">>
Pending == <<"P", "e", "n", "d", "i", "n", "g">>
Addr == <<"a", "@", "x">>
Subj == <<"s">>
Text == <<"b">>
Blank == <<" ">>

GoodRow == Row(Approved, <<>>, Addr, Subj, Text)

FirstRows ==
    {GoodRow}
    \cup {Row(st, <<>>, Addr, Subj, Text) : st \in {<<" ", "a", "p", "p", "r", "o", "v", "e", "d", " ">>, <<"A", "P", "P", "R", "O", "V", "E", "D">>, Pending, <<>>}}
    \cup {Row(Approved, se, Addr, Subj, Text) : se \in {<<"T", "r", "u", "e">>, <<" ", "Y", "E", "S", " ">>, <<"1">>, <<"n", "o">>}}
    \cup {Row(Approved, <<>>, em, Subj, Text) : em \in {<<>>, Blank}}
    \cup {Row(Approved, <<>>, Addr, <<>>, Text),
          Row(Approved, <<>>, Addr, Subj, Blank),
          Row(Pending, <<"T", "r", "u", "e">>, Addr, Subj, Text)}

NextRows == {GoodRow, Row(Pending, <<>>, Addr, Subj, Text),
             Row(Approved, <<"T", "R", "U", "E">>, Addr, Subj, Text)}

SheetRows ==
    {<<>>} \cup
    UNION {{<<first>> \o rest : first \in FirstRows, rest \in [1..k -> NextRows]} :
              k \in 0..(MaxRows - 1)}

SentHeaders == {<<"i", "s", "S", "e", "n", "t", "?">>, <<"S", "e", "n", "t", "?">>, <<" ", "I", "S", " ", "S", "E", "N", "T", "?", " ">>, <<"s", "e", "n", "t">>, <<"D", "o", "n", "e">>}

Worksheets ==
    {[headers |-> <<KeyStatus, h, KeyEmail, KeySubject, KeyBody>>, rows |-> rows] :
        h \in SentHeaders, rows \in SheetRows}

EMIdle ==
    /\ em_pc = "idle"
    /\ em_runs = 0
    /\ worksheet = [headers |-> <<>>, rows |-> <<>>]
    /\ records = <<>>
    /\ em_i = 1
    /\ em_cfg = 1
    /\ emails_sent = 0
    /\ total_rows = 0
    /\ approved_rows = 0
    /\ not_approved_rows = 0
    /\ em_delivered = 0
    /\ em_attempted = {}
    /\ em_marked = {}
    /\ em_marked_before = {}
    /\ em_printed = NoSummary
    /\ sent_folder_saves = 0

EMInit ==
    /\ em_pc = "idle"
    /\ em_runs = 0
    /\ worksheet \in Worksheets
    /\ records = <<>>
    /\ em_i = 1
    /\ em_cfg = 1
    /\ emails_sent = 0
    /\ total_rows = 0
    /\ approved_rows = 0
    /\ not_approved_rows = 0
    /\ em_delivered = 0
    /\ em_attempted = {}
    /\ em_marked = {}
    /\ em_marked_before = {}
    /\ em_printed = NoSummary
    /\ sent_folder_saves = 0

(***************************************************************************)
(* email-automation, draft variant: src/email_automation.py,                *)
(* EmailAutomation.save_emails_to_drafts and the functions it calls.        *)
(***************************************************************************)
\* Config.APPROVED_STATUS
APPROVED_STATUS == <<"a", "p", "p", "r", "o", "v", "e", "d">>

\* SheetsManager.get_worksheet_records without duplicate headers
get_worksheet_records(ws) == get_all_records(ws)

\* SheetsManager.find_sent_column: the first header that is a spelling of the
\* sent column, from 1, or 0 for None; the second loop ("SENT?") finds
\* nothing the first has not found
find_sent_column(headers) ==
    IF \E j \in 1..Len(headers) : Lower(Strip(headers[j])) \in SentHeaderNames
    THEN CHOOSE j \in 1..Len(headers) :
            /\ Lower(Strip(headers[j])) \in SentHeaderNames
            /\ \A k \in 1..(j - 1) : Lower(Strip(headers[k])) \notin SentHeaderNames
    ELSE 0

\* line 192: EmailUtils has no attribute should_save_email_draft (the class
\* of src/utils/email_utils.py defines should_send_email only), so the
\* attribute lookup raises AttributeError whatever the record is
should_save_email_draft(record) ==
    [raised |-> TRUE, should_save |-> FALSE, missing_reasons |-> <<>>]

\* UserInterface.display_summary: the four counters as printed, and the
\* closing line
display_summary(total, approved, not_approved, sent) ==
    [total_rows |-> total, approved_rows |-> approved,
     not_approved_rows |-> not_approved, emails_sent |-> sent,
     line |-> IF sent = 0
              THEN IF not_approved > 0 /\ approved = 0 THEN "no approved emails found"
                   ELSE IF approved > 0
                        THEN "may be missing required fields or already processed"
                        ELSE "no data found in sheets"
              ELSE "successfully saved"]

\* four counters
Counters(total, sent, approved, not_approved) ==
    [total_rows |-> total, emails_sent |-> sent, approved_rows |-> approved,
     not_approved_rows |-> not_approved]
Zero == Counters(0, 0, 0, 0)
Plus(a, b) ==
    Counters(a.total_rows + b.total_rows, a.emails_sent + b.emails_sent,
             a.approved_rows + b.approved_rows,
             a.not_approved_rows + b.not_approved_rows)
Summary(c) ==
    display_summary(c.total_rows, c.approved_rows, c.not_approved_rows, c.emails_sent)

\* save_emails_to_drafts, lines 29-78: without a connection or a valid mail
\* configuration the function returns; with URLs in .env it goes through
\* them, else through the one sheet typed in
DrStart ==
    /\ dr_pc = "idle"
    /\ dr_runs = 0
    /\ dr_sheets # <<>>
    /\ dr_runs' = 1
    /\ \E outcome \in {"not_configured", "env", "manual"} :
          /\ dr_pc' = IF outcome = "not_configured" THEN "idle" ELSE "sheet"
          /\ dr_mode' = IF outcome = "not_configured" THEN dr_mode ELSE outcome
    /\ dr_s' = 1
    /\ dr_w' = 1
    /\ dr_r' = 1
    /\ dr_records' = <<>>
    /\ dr_ws' = Zero
    /\ dr_sheet' = Zero
    /\ dr_totals' = Zero
    /\ dr_printed' = <<>>
    /\ dr_read' = Zero
    /\ dr_attempted' = {}
    /\ dr_mark_failed' = {}
    /\ UNCHANGED dr_sheets
    /\ UNCHANGED drOthers

\* _process_single_sheet_for_drafts returns to its caller: lines 102-113 add
\* the sheet's counters to the totals and stop at the first sheet that did
\* not succeed; line 78 drops the result
SheetReturns(success, result) ==
    /\ dr_totals' = IF dr_mode = "env" THEN Plus(dr_totals, result) ELSE dr_totals
    /\ dr_pc' = IF dr_mode = "manual" THEN "idle"
                ELSE IF success /\ dr_s < Len(dr_sheets) THEN "sheet" ELSE "final"
    /\ dr_s' = IF dr_mode = "env" /\ success /\ dr_s < Len(dr_sheets)
               THEN dr_s + 1 ELSE dr_s

\* lines 159-163: whatever is raised inside _process_single_sheet_for_drafts
\* ends the sheet with (False, 0, 0, 0, 0)
SheetRaises ==
    /\ SheetReturns(FALSE, Zero)
    /\ dr_w' = 1
    /\ dr_r' = 1
    /\ dr_records' = <<>>
    /\ dr_ws' = Zero
    /\ dr_sheet' = Zero

\* lines 117-133: the spreadsheet opens or the call raises
DrOpenSheet ==
    /\ dr_pc = "sheet"
    /\ \E outcome \in {"open_failed", "ok"} :
          IF outcome = "ok"
          THEN /\ dr_pc' = "worksheet"
               /\ dr_w' = 1
               /\ dr_r' = 1
               /\ dr_records' = <<>>
               /\ dr_ws' = Zero
               /\ dr_sheet' = Zero
               /\ UNCHANGED <<dr_s, dr_totals>>
          ELSE SheetRaises
    /\ UNCHANGED <<dr_runs, dr_mode, dr_sheets, dr_printed, dr_read, dr_attempted,
                   dr_mark_failed>>
    /\ UNCHANGED drOthers

\* lines 136-145 and 167-173: a worksheet without a sent column, or whose
\* sent column cannot be written, is skipped; reading the records may raise
DrWorksheet ==
    /\ dr_pc = "worksheet"
    /\ dr_w <= Len(dr_sheets[dr_s])
    /\ LET ws == dr_sheets[dr_s][dr_w]
       IN  \E outcome \in {"protected", "records_failed", "ok"} :
              IF find_sent_column(ws.headers) = 0 \/ outcome = "protected"
              THEN /\ dr_w' = dr_w + 1
                   /\ UNCHANGED <<dr_pc, dr_s, dr_r, dr_records, dr_ws, dr_sheet,
                                  dr_totals>>
              ELSE IF outcome = "records_failed"
                   THEN SheetRaises
                   ELSE /\ dr_pc' = "rows"
                        /\ dr_records' = get_worksheet_records(ws)
                        /\ dr_r' = 1
                        /\ dr_ws' = Zero
                        /\ UNCHANGED <<dr_s, dr_w, dr_sheet, dr_totals>>
    /\ UNCHANGED <<dr_runs, dr_mode, dr_sheets, dr_printed, dr_read, dr_attempted,
                   dr_mark_failed>>
    /\ UNCHANGED drOthers

\* lines 175-189: one record is counted
DrRowCount ==
    /\ dr_pc = "rows"
    /\ dr_r <= Len(dr_records)
    /\ LET approved == Lower(Strip(Get(dr_records[dr_r], KeyStatus))) = APPROVED_STATUS
           one == IF approved THEN Counters(1, 0, 1, 0) ELSE Counters(1, 0, 0, 1)
       IN  /\ dr_ws' = Plus(dr_ws, one)
           /\ dr_read' = Plus(dr_read, one)
    /\ dr_pc' = "filter"
    /\ UNCHANGED <<dr_runs, dr_mode, dr_sheets, dr_s, dr_w, dr_r, dr_records, dr_sheet,
                   dr_totals, dr_printed, dr_attempted, dr_mark_failed>>
    /\ UNCHANGED drOthers

\* lines 150-155: the worksheet's counters are added to the sheet's
WorksheetReturns(result) ==
    /\ dr_sheet' = Plus(dr_sheet, result)
    /\ dr_pc' = "worksheet"
    /\ dr_w' = dr_w + 1
    /\ dr_r' = 1
    /\ dr_records' = <<>>
    /\ dr_ws' = Zero
    /\ UNCHANGED <<dr_s, dr_totals>>

\* lines 192-215: the filter, the draft, the sent cell.  A draft that was
\* saved counts; when its row cannot be marked the worksheet returns at once.
DrRowFilter ==
    /\ dr_pc = "filter"
    /\ LET decision == should_save_email_draft(dr_records[dr_r])
           here == <<dr_s, dr_w, dr_r>>
       IN  IF decision.raised
           THEN /\ SheetRaises
                /\ UNCHANGED <<dr_attempted, dr_mark_failed>>
           ELSE IF ~decision.should_save
                THEN /\ dr_pc' = "rows"
                     /\ dr_r' = dr_r + 1
                     /\ UNCHANGED <<dr_s, dr_w, dr_records, dr_ws, dr_sheet, dr_totals,
                                    dr_attempted, dr_mark_failed>>
                ELSE /\ dr_attempted' = dr_attempted \cup {here}
                     /\ \E success \in BOOLEAN, mark_success \in BOOLEAN :
                           IF ~success
                           THEN /\ dr_pc' = "rows"
                                /\ dr_r' = dr_r + 1
                                /\ UNCHANGED <<dr_s, dr_w, dr_records, dr_ws, dr_sheet,
                                               dr_totals, dr_mark_failed>>
                           ELSE IF mark_success
                                   /\ find_sent_column(dr_sheets[dr_s][dr_w].headers) # 0
                                THEN /\ dr_pc' = "rows"
                                     /\ dr_r' = dr_r + 1
                                     /\ dr_ws' = Plus(dr_ws, Counters(0, 1, 0, 0))
                                     /\ UNCHANGED <<dr_s, dr_w, dr_records, dr_sheet,
                                                    dr_totals, dr_mark_failed>>
                                ELSE /\ dr_mark_failed' = dr_mark_failed \cup {here}
                                     /\ WorksheetReturns(Plus(dr_ws, Counters(0, 1, 0, 0)))
    /\ UNCHANGED <<dr_runs, dr_mode, dr_sheets, dr_printed, dr_read>>
    /\ UNCHANGED drOthers

\* line 217: the records are through
DrWorksheetDone ==
    /\ dr_pc = "rows"
    /\ dr_r > Len(dr_records)
    /\ WorksheetReturns(dr_ws)
    /\ UNCHANGED <<dr_runs, dr_mode, dr_sheets, dr_printed, dr_read, dr_attempted,
                   dr_mark_failed>>
    /\ UNCHANGED drOthers

\* lines 156-158: the worksheets are through; the sheet's summary is printed
DrSheetDone ==
    /\ dr_pc = "worksheet"
    /\ dr_w > Len(dr_sheets[dr_s])
    /\ dr_printed' = Append(dr_printed, Summary(dr_sheet))
    /\ SheetReturns(TRUE, dr_sheet)
    /\ dr_w' = 1
    /\ dr_r' = 1
    /\ dr_records' = <<>>
    /\ dr_ws' = Zero
    /\ dr_sheet' = Zero
    /\ UNCHANGED <<dr_runs, dr_mode, dr_sheets, dr_read, dr_attempted, dr_mark_failed>>
    /\ UNCHANGED drOthers

\* line 113: the final summary over the totals
DrFinal ==
    /\ dr_pc = "final"
    /\ dr_printed' = Append(dr_printed, Summary(dr_totals))
    /\ dr_pc' = "idle"
    /\ UNCHANGED <<dr_runs, dr_mode, dr_sheets, dr_s, dr_w, dr_r, dr_records, dr_ws,
                   dr_sheet, dr_totals, dr_read, dr_attempted, dr_mark_failed>>
    /\ UNCHANGED drOthers

DRNext ==
    \/ DrStart
    \/ DrOpenSheet
    \/ DrWorksheet
    \/ DrRowCount
    \/ DrRowFilter
    \/ DrWorksheetDone
    \/ DrSheetDone
    \/ DrFinal

(***************************************************************************)
(* The spreadsheets a draft run may start from.                             *)
(***************************************************************************)
\* URLs in GOOGLE_SHEETS_URLS
MaxSheets == 2

DraftHeaders(h) == <<KeyStatus, h, KeyEmail, KeySubject, KeyBody>>
PendingRow == Row(Pending, <<>>, Addr, Subj, Text)

DraftWorksheets ==
    {[headers |-> DraftHeaders(<<"S", "E", "N", "T", "?">>), rows |-> rows] :
        rows \in {<<>>, <<GoodRow>>, <<PendingRow, GoodRow>>}}
    \cup {[headers |-> DraftHeaders(<<"D", "o", "n", "e">>), rows |-> <<GoodRow>>]}

DraftSpreadsheets ==
    {<<ws>> : ws \in DraftWorksheets}
    \cup {<<first, second>> : first \in DraftWorksheets, second \in DraftWorksheets}

DraftUrlLists ==
    UNION {[1..k -> DraftSpreadsheets] : k \in 1..MaxSheets}

DRIdle ==
    /\ dr_pc = "idle"
    /\ dr_runs = 0
    /\ dr_mode = "env"
    /\ dr_sheets = <<>>
    /\ dr_s = 1
    /\ dr_w = 1
    /\ dr_r = 1
    /\ dr_records = <<>>
    /\ dr_ws = Zero
    /\ dr_sheet = Zero
    /\ dr_totals = Zero
    /\ dr_printed = <<>>
    /\ dr_read = Zero
    /\ dr_attempted = {}
    /\ dr_mark_failed = {}

DRInit ==
    /\ dr_pc = "idle"
    /\ dr_runs = 0
    /\ dr_mode = "env"
    /\ dr_sheets \in DraftUrlLists
    /\ dr_s = 1
    /\ dr_w = 1
    /\ dr_r = 1
    /\ dr_records = <<>>
    /\ dr_ws = Zero
    /\ dr_sheet = Zero
    /\ dr_totals = Zero
    /\ dr_printed = <<>>
    /\ dr_read = Zero
    /\ dr_attempted = {}
    /\ dr_mark_failed = {}

(***************************************************************************)
(* Specifications                                                          *)
(***************************************************************************)
InitNorm == script = "normalize_number" /\ NNInit /\ WAIdle /\ IGIdle /\ EMIdle /\ DRIdle /\ SHIdle /\ LKIdle /\ BSIdle /\ SMIdle /\ RMIdle
SpecNorm == InitNorm /\ [][NNNext]_vars

InitWA == script = "whatsapp" /\ WAInit /\ NNIdle /\ IGIdle /\ EMIdle /\ DRIdle /\ SHIdle /\ LKIdle /\ BSIdle /\ SMIdle /\ RMIdle
SpecWA == InitWA /\ [][WANext]_vars

InitWAOneRun == script = "whatsapp" /\ WAInitOneRun /\ NNIdle /\ IGIdle /\ EMIdle /\ DRIdle /\ SHIdle /\ LKIdle /\ BSIdle /\ SMIdle /\ RMIdle
SpecWAOneRun == InitWAOneRun /\ [][WAOneRunNext]_vars

InitIG == script = "instagram" /\ IGInit /\ NNIdle /\ WAIdle /\ EMIdle /\ DRIdle /\ SHIdle /\ LKIdle /\ BSIdle /\ SMIdle /\ RMIdle
SpecIG == InitIG /\ [][IGNext]_vars

InitEmail == script = "email" /\ EMInit /\ NNIdle /\ WAIdle /\ IGIdle /\ DRIdle /\ SHIdle /\ LKIdle /\ BSIdle /\ SMIdle /\ RMIdle
SpecEmail == InitEmail /\ [][EMNext]_vars

InitEmailOneRun == script = "email" /\ EMInit /\ NNIdle /\ WAIdle /\ IGIdle /\ DRIdle /\ SHIdle /\ LKIdle /\ BSIdle /\ SMIdle /\ RMIdle
SpecEmailOneRun == InitEmailOneRun /\ [][EMOneRunNext]_vars

InitDraft == script = "draft" /\ DRInit /\ NNIdle /\ WAIdle /\ IGIdle /\ EMIdle /\ SHIdle /\ LKIdle /\ BSIdle /\ SMIdle /\ RMIdle
SpecDraft == InitDraft /\ [][DRNext]_vars

\* one run of either email variant
InitEmailVariants == InitEmailOneRun \/ InitDraft
EmailVariantsNext ==
    \/ script = "email" /\ EMOneRunNext
    \/ script = "draft" /\ DRNext
SpecEmailVariants == InitEmailVariants /\ [][EmailVariantsNext]_vars

\* one run of a batch that ends with a summary: the WhatsApp workers or
\* send_emails
InitBatch == InitWAOneRun \/ InitEmailOneRun
BatchNext ==
    \/ script = "whatsapp" /\ WAOneRunNext
    \/ script = "email" /\ EMOneRunNext
SpecBatch == InitBatch /\ [][BatchNext]_vars

\* one run of a batch loop: the WhatsApp workers, send_emails, or the
\* Instagram loop
InitWAShards == script = "whatsapp" /\ WAInitShards /\ NNIdle /\ IGIdle /\ EMIdle /\ DRIdle /\ SHIdle /\ LKIdle /\ BSIdle /\ SMIdle /\ RMIdle
InitLoops == InitWAShards \/ InitEmailOneRun \/ InitIG
LoopsNext ==
    \/ script = "whatsapp" /\ WAOneRunNext
    \/ script = "email" /\ EMOneRunNext
    \/ script = "instagram" /\ IGNext
SpecLoops == InitLoops /\ [][LoopsNext]_vars

\* the loop of run() that cuts the shards
InitShards ==
    /\ script = "whatsapp" /\ SHInit
    /\ NNIdle /\ WAIdle /\ IGIdle /\ EMIdle /\ DRIdle /\ LKIdle /\ BSIdle /\ SMIdle /\ RMIdle
SpecShards == InitShards /\ [][SHNext]_vars

\* the worker threads' use of contacted_lock
InitLock ==
    /\ script = "whatsapp" /\ LKInit
    /\ NNIdle /\ WAIdle /\ IGIdle /\ EMIdle /\ DRIdle /\ SHIdle /\ BSIdle /\ SMIdle /\ RMIdle
SpecLock == InitLock /\ [][LKNext]_vars

\* the browser sessions of a WhatsApp worker or of the Instagram main()
InitSessions ==
    /\ script \in {"whatsapp", "instagram"} /\ BSInit
    /\ NNIdle /\ WAIdle /\ IGIdle /\ EMIdle /\ DRIdle /\ SHIdle /\ LKIdle /\ SMIdle /\ RMIdle
SpecSessions == InitSessions /\ [][BSNext]_vars

\* one delivery attempt over the SMTP configurations
InitSmtp ==
    /\ script = "email" /\ SMInit
    /\ NNIdle /\ WAIdle /\ IGIdle /\ EMIdle /\ DRIdle /\ SHIdle /\ LKIdle /\ BSIdle /\ RMIdle
SpecSmtp == InitSmtp /\ [][SMNext]_vars

\* the threads' end-of-shard removals from the source files
InitRemoval ==
    /\ script = "whatsapp" /\ RMInit
    /\ NNIdle /\ WAIdle /\ IGIdle /\ EMIdle /\ DRIdle /\ SHIdle /\ LKIdle /\ BSIdle
    /\ SMIdle
SpecRemoval == InitRemoval /\ [][RMNext]_vars

(***************************************************************************)
(* C10: whenever normalize_number(i) succeeds, normalize_number applied to  *)
(* its result succeeds too and returns that same result.                    *)
(***************************************************************************)
C10_Idempotent ==
    nn_pc = "again" => (nn_again.ok /\ nn_again.val = nn_result.val)

\* a decorated input was normalized and its result normalized once more
C10_Witness ==
    /\ nn_pc = "again"
    /\ nn_result.ok
    /\ nn_input # nn_result.val


(***************************************************************************)
(* The WhatsApp ledger over successive processes.                           *)
(***************************************************************************)
\* C1: over any sequence of runs in which every ledger write succeeds, the
\* Send button is clicked successfully at most once for each normalized
\* phone number.
C1_ClickedAtMostOnce ==
    ~wa_write_failed => \A n \in DOMAIN wa_clicks : wa_clicks[n] <= 1

\* C6: once a number is recorded, the in-memory ledger holds its normalized
\* form for the rest of that process and again in every later process that
\* has reloaded contacted.csv.
C6_RecordedStaysKnown ==
    wa_pc \in {"constructed", "running"} => wa_recorded \subseteq contacted_numbers

\* the ledger states startup refuses, and the ones it takes as empty
MalformedKinds == {"unreadable", "no_column", "bad_entry"}
EmptyKinds == {"missing", "empty", "header_only"}

C2_OneAttemptPerIdentity ==
    \A u \in DOMAIN ig_attempts : ig_attempts[u] <= 1

\* C7: starting from a missing messaged.csv, once earlier runs have recorded
\* usernames, the next run's load_usernames does not raise and none of the
\* recorded usernames is in the list it returns.
C7_ReloadExcludesRecorded ==
    (ig_from_missing /\ ig_known # {}) =>
        /\ ig_load = "ok"
        /\ \A i \in 1..Len(usernames) : usernames[i] \notin ig_known

\* C8: a run started while messaged.csv is missing, zero bytes or header-only
\* (and usernames.csv is readable) does not fail in load_usernames.
C8_EmptyLedgerTolerated ==
    (ig_start_kind \in EmptyKinds /\ ReadColumn(usernames_csv, USERNAME).ok) =>
        ig_load = "ok"


(***************************************************************************)
(* The email batch run.                                                     *)
(***************************************************************************)
\* C3: the SMTP configurations are tried in order and the attempt stops at
\* the first one whose connect, login and send all succeed: a configuration
\* is about to be tried only while no sendmail of this attempt has gone
\* through, and the attempt counts as sent after exactly one.
C3_StopsAtFirstSuccess ==
    /\ em_pc = "smtp" => em_delivered = 0
    /\ em_pc = "sent" => em_delivered = 1

\* a row's cell under the key send_emails reads, trimmed
C4_Cell(i, key) == Strip(Get(records[i], key))

\* the condition of C4 on row i
C4_Eligible(i) ==
    /\ Lower(C4_Cell(i, KeyStatus)) = <<"a", "p", "p", "r", "o", "v", "e", "d">>
    /\ Lower(C4_Cell(i, KeyIsSent)) \notin {<<"t", "r", "u", "e">>, <<"y", "e", "s">>, <<"1">>}
    /\ C4_Cell(i, KeyEmail) # <<>>
    /\ C4_Cell(i, KeySubject) # <<>>
    /\ C4_Cell(i, KeyBody) # <<>>

\* the loop has decided about row i
C4_Decided(i) == i < em_i \/ (i = em_i /\ em_pc \in {"smtp", "sent"})

C5_MarkedNotSentAgain ==
    em_attempted \cap em_marked_before = {}


(***************************************************************************)
(* normalize_number as a function of its input.                             *)
(***************************************************************************)
\* the text without spaces, hyphens, plus signs and parentheses
C11_Kept(s) == SelectSeq(s, LAMBDA c : c \notin {" ", "-", "+", "(", ")"})

C11_AllDigits(s) ==
    \A i \in 1..Len(s) : s[i] \in {"0", "1", "2", "3", "4", "5", "6", "7", "8", "9"}

\* the result the rule gives for the text kept
C11_Rule(input, kept) ==
    IF input # <<>> /\ C11_AllDigits(kept) /\ Len(kept) >= 8 /\ Len(kept) <= 15
    THEN nn_result = [ok |-> TRUE, val |-> kept]
    ELSE ~nn_result.ok

\* C11 (as the code has it): normalize_number first strips the whitespace
\* at both ends of its input, then removes spaces, hyphens, plus signs and
\* parentheses; it returns what remains when that is 8 to 15 digits and
\* nothing else, and raises when it is shorter, longer, holds a non-digit
\* character, or the input is empty.
C11_StripsThenRemoves ==
    nn_pc # "input" => C11_Rule(nn_input, C11_Kept(Strip(nn_input)))

C11_Witness ==
    /\ nn_pc = "called"
    /\ nn_result.ok
    /\ Head(nn_input) = Tab
    /\ Len(nn_result.val) = 15
    /\ \E i \in 1..Len(nn_input) : nn_input[i] = ")"

\* C11 as stated: only spaces, hyphens, plus signs and parentheses are
\* removed, and any other non-digit character left makes the call fail.
C11_RemovesOnlySeparators ==
    nn_pc # "input" => C11_Rule(nn_input, C11_Kept(nn_input))


(***************************************************************************)
(* C12: in both email variants, at every step of a run and in every        *)
(* summary it prints, the approved and the not-approved rows add up to the *)
(* rows processed and the deliveries counted do not exceed the approved    *)
(* rows, also when deliveries fail or a sheet raises part-way.  (A step is *)
(* a record counted, a call that may raise, or a line printed.)            *)
(***************************************************************************)
C12_Consistent(c) ==
    /\ c.approved_rows + c.not_approved_rows = c.total_rows
    /\ c.emails_sent <= c.approved_rows

C12_CountersConsistent ==
    /\ approved_rows + not_approved_rows = total_rows
    /\ emails_sent <= approved_rows
    /\ em_printed.printed => C12_Consistent(em_printed)
    /\ C12_Consistent(dr_ws)
    /\ C12_Consistent(dr_sheet)
    /\ C12_Consistent(dr_totals)
    /\ \A k \in 1..Len(dr_printed) : C12_Consistent(dr_printed[k])

\* a summary over two approved rows that both got an attempt, one of which
\* was delivered and the other failed on every configuration
C12_Witness ==
    /\ em_printed.printed
    /\ em_printed.total_rows = 2
    /\ em_printed.approved_rows = 2
    /\ em_printed.emails_sent = 1
    /\ Cardinality(em_attempted) = 2

(***************************************************************************)
(* C13: a batch run that has started ends with its summary printed,        *)
(* whatever failed: send_emails returns from past its configuration check  *)
(* only with the summary printed, and a worker thread leaves               *)
(* process_contacts only with its summary printed, also after a fatal      *)
(* error in its shard, a browser that did not start, or a declined or      *)
(* timed-out QR scan.                                                      *)
(***************************************************************************)
C13_InProcessContacts(pc) ==
    pc \in {"start", "loop", "attempt", "append", "stats", "finally"}

C14_NamesTheCause(line, read, approved, eligible) ==
    /\ (line = "no approved emails found") <=> (read > 0 /\ approved = 0)
    /\ (line = "no data found in sheets") <=> (read = 0)
    /\ (line \in {"may be missing required fields or already sent",
                  "may be missing required fields or already processed"})
          <=> (approved > 0 /\ eligible = 0)

\* the rows send_emails went over, and the approved ones among them
C14_Read == em_i - 1
C14_Approved ==
    Cardinality({k \in 1..(em_i - 1) :
                    Lower(Strip(Get(records[k], KeyStatus))) = APPROVED_STATUS})

C14_SummaryNamesCause ==
    [][/\ (em_pc = "summary" /\ em_pc' = "idle" /\ emails_sent = 0)
            => C14_NamesTheCause(em_printed'.line, C14_Read, C14_Approved,
                                 Cardinality(em_attempted))
       /\ (dr_pc = "final" /\ dr_pc' = "idle" /\ dr_totals.emails_sent = 0)
            => C14_NamesTheCause(dr_printed'[Len(dr_printed')].line,
                                 dr_read.total_rows, dr_read.approved_rows,
                                 Cardinality(dr_attempted))]_vars

(***************************************************************************)
(* C15: in the draft variant, once marking a row as sent has failed after  *)
(* its draft was saved, no later row of that worksheet is given to         *)
(* save_email_to_drafts in the run.  The formula holds of the model, but   *)
(* no run reaches its case: line 192 raises for every record, so no draft  *)
(* is ever saved and mark_as_sent is never called (C15_CaseNeverHappens    *)
(* holds as well).                                                         *)
(***************************************************************************)
C15_HaltsAfterMarkFailure ==
    \A failed \in dr_mark_failed, later \in dr_attempted :
        ~(later[1] = failed[1] /\ later[2] = failed[2] /\ later[3] > failed[3])

C15_CaseNeverHappens == dr_attempted = {} /\ dr_mark_failed = {}

(***************************************************************************)
(* C16: a failed delivery never stops a batch loop.  A WhatsApp worker, the *)
(* send_emails loop and the Instagram loop leave their loop only when every *)
(* target of the shard or sheet has been gone through; by then every target *)
(* has had its outcome, and every eligible one its own attempt: a worker's  *)
(* three counters add up to its shard, every row that passes the filter of  *)
(* lines 330-336 was attempted, every username was given to send_message.   *)
(***************************************************************************)
C16_InLoop(pc) == pc \in {"loop", "attempt", "append", "stats"}

C16_WorkerGoesThrough(p) ==
    (C16_InLoop(w_pc[p]) /\ ~C16_InLoop(w_pc'[p]))
        => /\ w_idx[p] = Len(contact_subset[p]) + 1
           /\ w_stats[p].successful_sends + w_stats[p].failed_sends
                 + w_stats[p].skipped = Len(contact_subset[p])

C16_SendGoesThrough ==
    (em_pc \in {"rows", "smtp", "sent"} /\ em_pc' \notin {"rows", "smtp", "sent"})
        => /\ em_i = Len(records) + 1
           /\ em_attempted = {k \in 1..Len(records) : ShouldAttempt(records[k])}

C16_InstagramGoesThrough ==
    (ig_pc = "loop" /\ ig_pc' # "loop")
        => /\ ig_idx = Len(usernames) + 1
           /\ \A k \in 1..Len(usernames) : Count(ig_attempts, usernames[k]) >= 1

C16_FailureNeverStopsLoop ==
    [][/\ \A p \in Profiles : C16_WorkerGoesThrough(p)
       /\ C16_SendGoesThrough
       /\ C16_InstagramGoesThrough]_vars

\* a worker is through a shard of two contacts, the first of which failed
\* on all its attempts while the second was sent
C16_Witness ==
    \E p \in Profiles :
        /\ w_pc[p] = "finally"
        /\ w_exit[p] = "through"
        /\ Len(contact_subset[p]) = 2
        /\ w_stats[p].failed_sends = 1
        /\ w_sent[p] = <<contact_subset[p][2]>>

(***************************************************************************)
(* C17: Instagram: when send_message finds that the profile does not       *)
(* exist, that pass of the loop makes this one call only and moves on to   *)
(* the next username, and it leaves messaged.csv and usernames.csv exactly *)
(* as they were.                                                           *)
(***************************************************************************)
C17_InvalidProfilePass ==
    ig_pc = "loop" /\ ig_idx' = ig_idx + 1 /\ ig_outcome' = "invalid_profile"

C17_InvalidProfileLeavesFiles ==
    [][C17_InvalidProfilePass
          => /\ messaged_csv' = messaged_csv
             /\ usernames_csv' = usernames_csv
             /\ ig_recorded' = ig_recorded
             /\ Count(ig_attempts', usernames[ig_idx])
                   <= Count(ig_attempts, usernames[ig_idx]) + 1
             /\ ig_pc' = "loop"]_vars

\* the first username's profile did not exist; the loop stands at the second
\* username, the first is still in usernames.csv and nothing was recorded
C17_Witness ==
    /\ ig_pc = "loop"
    /\ ig_outcome = "invalid_profile"
    /\ ig_idx = 2
    /\ ig_recorded = {}
    /\ load_usernames.ok
    /\ usernames[1] \in SeqToSet(load_usernames.val)

(***************************************************************************)
(* C18: run() cuts a list of L >= 1 contacts for N >= 1 profiles into N    *)
(* shards that are contiguous slices in list order, pairwise disjoint and  *)
(* together the whole list, each contact in exactly one of them; the first *)
(* L mod N shards hold floor(L/N) + 1 contacts and the others floor(L/N).  *)
(* For the three profiles of CHROME_PROFILES these are the slices the      *)
(* worker threads are given.                                               *)
(***************************************************************************)
RECURSIVE C18_Concat(_)
C18_Concat(shards) ==
    IF shards = <<>> THEN <<>> ELSE Head(shards) \o C18_Concat(Tail(shards))

C19_Accesses(p) ==
    /\ lk_pc[p] \in {"in_check", "in_append", "returned_false"}
    /\ lk_pc'[p] # lk_pc[p]

\* p has checked its identity and not yet appended it or given up
C19_BetweenCheckAndAppend(p) == lk_pc[p] \in {"attempt", "clicked", "in_append"}

C19_CheckAppendAtomicUnderLock ==
    [][\A p \in Profiles :
          /\ C19_Accesses(p) => contacted_lock = p
          /\ C19_BetweenCheckAndAppend(p) =>
                \A q \in Profiles \ {p} : C19_Accesses(q) => q # p]_vars

(***************************************************************************)
(* C20: when a WhatsApp worker or the Instagram run has returned, every    *)
(* browser session created during it, the replacement sessions of safe_get *)
(* included, has been quit.                                                *)
(***************************************************************************)
C20_EverySessionQuitAtReturn == bs_pc = "returned" => bs_open = {}

(***************************************************************************)
(* C21: on a worksheet with a recognised sent column, the step that        *)
(* follows a successful delivery for record i either writes "True" into   *)
(* the sent column of that record's row and nothing else, or (the header   *)
(* read or the cell update raised) writes nothing; the sheet changes in no  *)
(* other step, and when it changes no later row has been attempted yet.     *)
(***************************************************************************)
\* the step of lines 429-451 for the record at em_i
C21_AfterDelivery == em_pc = "sent" /\ em_pc' = "rows"

C21_Recognised == SentColumn(worksheet.headers) # 0

\* the cell of record em_i under the sent header is "True", all else is as it was
C21_Marked ==
    /\ worksheet'.headers = worksheet.headers
    /\ Len(worksheet'.rows) = Len(worksheet.rows)
    /\ \A r \in 1..Len(worksheet.rows) :
          /\ Len(worksheet'.rows[r]) = Len(worksheet.rows[r])
          /\ \A c \in 1..Len(worksheet.rows[r]) :
                worksheet'.rows[r][c] =
                    IF r = em_i /\ c = SentColumn(worksheet.headers)
                    THEN TrueText
                    ELSE worksheet.rows[r][c]

C22_EveryConfigFailed ==
    em_pc = "smtp" /\ em_cfg = NumSmtpConfigs /\ em_pc' = "rows"

C22_FailedRowStaysEligible ==
    [][C22_EveryConfigFailed =>
          /\ worksheet' = worksheet
          /\ em_marked' = em_marked
          /\ emails_sent' = emails_sent
          /\ sent_folder_saves' = sent_folder_saves
          /\ ShouldAttempt(get_all_records(worksheet')[em_i])]_vars

\* the second row failed on every configuration after the first was sent and
\* marked, and the run has printed its summary
C22_Witness ==
    /\ em_printed.printed
    /\ em_printed.emails_sent = 1
    /\ em_attempted = {1, 2}
    /\ em_marked = {1}
    /\ ShouldAttempt(get_all_records(worksheet)[2])
    /\ ~ShouldAttempt(get_all_records(worksheet)[1])

(***************************************************************************)
(* C23: whenever the loop over the configurations stands between two       *)
(* configurations, and when the delivery attempt has returned, no SMTP     *)
(* connection opened by a configuration that failed is still open.         *)
(***************************************************************************)
C23_FailedConnectionsClosed ==
    sm_pc \in {"config", "after_loop", "returned"} => sm_open = {}

(***************************************************************************)
(* C24: when every configuration has failed, the error reported for the    *)
(* target is the error raised by the last configuration that was tried.    *)
(***************************************************************************)
C24_LastErrorReported ==
    (sm_pc = "returned" /\ ~sm_success) => sm_reported = sm_error

(***************************************************************************)
(* C25: while a WhatsApp run is under way, the ledger only grows, by       *)
(* identities whose Send click was confirmed, and holds every identity     *)
(* whose Send click was confirmed in this run, both in memory and in       *)
(* contacted.csv, as soon as the append that follows the click is over.    *)
(***************************************************************************)
\* the identity whose click was confirmed and whose append is still to come
C25_AppendPending(n) ==
    \E p \in Profiles :
        /\ w_pc[p] = "append"
        /\ normalize_number(Str(CurrentNumber(p))).val = n

C25_Confirmed(n) == n \in DOMAIN wa_clicks /\ wa_clicks[n] > 0

\* the identities contacted.csv holds
C25_FileIdentities(file) ==
    IF file.state # "file" THEN {}
    ELSE {normalize_number(file.lines[i]).val :
            i \in {j \in 2..Len(file.lines) : normalize_number(file.lines[j]).ok}}

C25_LedgerIsLoadedPlusConfirmed ==
    [][(wa_pc = "running" /\ wa_pc' = "running") =>
          /\ contacted_numbers \subseteq contacted_numbers'
          /\ \A n \in contacted_numbers' \ contacted_numbers : C25_Confirmed(n)
          /\ C25_FileIdentities(contacted_csv) \subseteq C25_FileIdentities(contacted_csv')
          /\ \A n \in DOMAIN wa_clicks' :
                (wa_clicks'[n] > 0 /\ ~C25_AppendPending(n)')
                    => /\ n \in contacted_numbers'
                       /\ n \in C25_FileIdentities(contacted_csv')]_vars

(***************************************************************************)
(* C26: when the append to contacted.csv fails after the Send button was   *)
(* clicked for a contact, the contact's normalized number is in the        *)
(* in-memory contacted set all the same and no further attempt, hence no   *)
(* further click, is made for that contact.                                *)
(***************************************************************************)
\* the step of lines 72-74 for profile p in which safely_append_to_contacted raises
C26_AppendFails(p) ==
    /\ wa_pc = "running" /\ w_pc[p] = "append"
    /\ w_pc'[p] # "append"
    /\ wa_write_failed'
    /\ contacted_csv' = contacted_csv

C26_AppendFailureKeepsInMemory ==
    [][\A p \in Profiles :
          C26_AppendFails(p) =>
              /\ normalize_number(Str(CurrentNumber(p))).val \in contacted_numbers'
              /\ w_pc'[p] # "attempt"]_vars

(***************************************************************************)
(* C27: once every worker has finished its end-of-shard removal, the       *)
(* source files hold exactly the rows whose normalized number no worker    *)
(* sent, in whatever order the workers' reads and writes of the files took *)
(* place.                                                                  *)
(***************************************************************************)
C27_SentByAny == UNION {Normalized(rm_sent[p]) : p \in Profiles}

\* the normalized numbers of the rows a file holds
C27_Rows(file) ==
    LET df == read_csv(file) IN
    IF df.ok THEN {normalize_number(df.val.values[i]).val : i \in 1..Len(df.val.values)}
    ELSE {}

C27_AllRows == UNION {C27_Rows(rm_folder.files[k]) : k \in 1..Len(rm_folder.files)}

\* the rows the files held when the workers started
C27_RowsAtStart ==
    IF Len(rm_folder.files) = 1 THEN {N8, M8, P8} ELSE {N8, M8, P8, Q8}

C27_SentRowsGoneOthersKept ==
    (\A p \in Profiles : rm_pc[p] = "done") =>
        C27_AllRows = C27_RowsAtStart \ C27_SentByAny

(***************************************************************************)
(* C28: safe_get makes at most retries passes of its loop; right after it  *)
(* has returned True the session the caller holds is alive and is the one  *)
(* in which the url was loaded, also when safe_get replaced an invalid     *)
(* session; right after it has returned False no session loaded the url.   *)
(***************************************************************************)
C28_TrueMeansCallerSessionLoaded ==
    /\ bs_attempt < retries
    /\ bs_result = "True" => (bs_driver \in bs_open /\ bs_loaded = bs_driver)
    /\ bs_result = "False" => bs_loaded = 0

(***************************************************************************)
(* C29: in load_all_contacts a row whose number fails normalization makes  *)
(* only that row be skipped: every row of a CSV file whose number is valid *)
(* is loaded, or its number was seen already, whether the row comes before *)
(* or after the invalid one.                                               *)
(***************************************************************************)
\* the normalized numbers of the valid rows of a file that has the column
C29_ValidRows(file) ==
    LET df == read_csv(file) IN
    IF df.ok /\ df.val.column = COLUMN_NAME
    THEN {normalize_number(Str(df.val.typed[i])).val :
            i \in {j \in 1..Len(df.val.typed) : normalize_number(Str(df.val.typed[j])).ok}}
    ELSE {}

C29_ValidNumbers ==
    UNION {C29_ValidRows(csv_folder.files[k]) : k \in 1..Len(csv_folder.files)}

\* the normalized numbers of the contacts the run holds after loading
C29_LoadedNumbers ==
    UNION {{normalize_number(Str(contact_subset[p][i])).val :
              i \in 1..Len(contact_subset[p])} : p \in Profiles}

C29_InvalidRowSkipsOnlyItself ==
    [][(wa_pc = "constructed" /\ wa_pc' # "constructed" /\ csv_folder.exists) =>
          IF wa_pc' = "running" THEN C29_ValidNumbers \subseteq C29_LoadedNumbers'
          ELSE C29_ValidNumbers = {}]_vars

(***************************************************************************)
(* C30: every contact a worker processed is counted in exactly one of      *)
(* successful_sends, failed_sends and skipped, and a contact skipped       *)
(* because its normalized number was in the ledger already is counted      *)
(* under skipped and not under failed_sends, whatever the formatting of   *)
(* its number in the source file.                                          *)
(***************************************************************************)
C30_Counted(stats) == stats.successful_sends + stats.failed_sends + stats.skipped

\* process_single_contact returned False at the ledger check of lines 52-56
C30_SkippedAsContacted(p) ==
    /\ wa_pc = "running" /\ w_pc[p] = "stats"
    /\ normalize_number(Str(CurrentNumber(p))).val \in contacted_numbers

C30_SkippedCountedAsSkipped ==
    [][\A p \in Profiles :
          (wa_pc = "running" /\ wa_pc' = "running" /\ w_pc[p] # "finally") =>
             /\ w_idx'[p] - w_idx[p] \in {0, 1}
             /\ C30_Counted(w_stats'[p]) - C30_Counted(w_stats[p]) = w_idx'[p] - w_idx[p]
             /\ w_stats'[p].successful_sends >= w_stats[p].successful_sends
             /\ w_stats'[p].failed_sends >= w_stats[p].failed_sends
             /\ w_stats'[p].skipped >= w_stats[p].skipped
             /\ (C30_SkippedAsContacted(p) /\ w_idx'[p] = w_idx[p] + 1) =>
                   /\ w_stats'[p].skipped = w_stats[p].skipped + 1
                   /\ w_stats'[p].failed_sends = w_stats[p].failed_sends]_vars

\* the counting alone: one counter per processed contact
C30_OneCounterPerContact ==
    [][\A p \in Profiles :
          (wa_pc = "running" /\ wa_pc' = "running" /\ w_pc[p] # "finally") =>
             /\ w_idx'[p] - w_idx[p] \in {0, 1}
             /\ C30_Counted(w_stats'[p]) - C30_Counted(w_stats[p]) = w_idx'[p] - w_idx[p]]_vars

=============================================================================
